---- MODULE Spec2Model ----
(***************************************************************************)
(* A model of slopjson (arjunguha/viewjson): the format parsers of         *)
(* json_reader.rs, the tree builders of tree_model.rs and tree_builder.rs, *)
(* the value formatter of value_formatting.rs and the search toolbar of    *)
(* main.rs.                                                                *)
(*                                                                         *)
(* Text is a sequence of one-character strings, so that splitting into     *)
(* lines, trimming, parsing, serialising and substring search are computed *)
(* character by character, as the code computes them.                      *)
(***************************************************************************)
EXTENDS Integers, Sequences, FiniteSets, TLC

(***************************************************************************)
(* Bounds of the model.                                                    *)
(***************************************************************************)
\* longest input text given to the parsers
MaxLen == 4
\* most nodes (scalars and containers) of a value given to the tree builders
MaxNodes == 4
\* most roots the tree store holds at once
MaxRoots == 1
\* most files named on the command line
MaxArgs == 2
\* most key matches, and most value matches, a leaf has in a match list
MaxOcc == 2
\* longest string given to format_value_preview
MaxChars == 52

(***************************************************************************)
(* Value: serde_json::Value.  One record shape for every variant:          *)
(*   t    the variant                                                      *)
(*   n    the number of a Number, 1/0 for a Bool                           *)
(*   s    the text of a String                                             *)
(*   kids the elements of an Array, or the fields of an Object, each       *)
(*        [k |-> key, v |-> Value], in stored order; k is empty in arrays  *)
(***************************************************************************)
Null == [t |-> "Null", n |-> 0, s |-> <<>>, kids |-> <<>>]

Bool(b) == [t |-> "Bool", n |-> IF b THEN 1 ELSE 0, s |-> <<>>, kids |-> <<>>]

Num(n) == [t |-> "Number", n |-> n, s |-> <<>>, kids |-> <<>>]

Str(s) == [t |-> "String", n |-> 0, s |-> s, kids |-> <<>>]

Arr(items) ==
  [t |-> "Array", n |-> 0, s |-> <<>>,
   kids |-> [i \in 1..Len(items) |-> [k |-> <<>>, v |-> items[i]]]]

Obj(fields) == [t |-> "Object", n |-> 0, s |-> <<>>, kids |-> fields]

Field(k, v) == [k |-> k, v |-> v]

\* serde_json::Map::insert: a key already present keeps its place and takes
\* the new value; a new key goes last
RECURSIVE MapInsert(_, _, _)
MapInsert(fields, k, v) ==
  IF fields = <<>> THEN <<Field(k, v)>>
  ELSE IF Head(fields).k = k THEN <<Field(k, v)>> \o Tail(fields)
  ELSE <<Head(fields)>> \o MapInsert(Tail(fields), k, v)

(***************************************************************************)
(* Characters and decimal text.                                            *)
(***************************************************************************)
DigitChars == <<"0", "1", "2", "3", "4", "5", "6", "7", "8", "9">>

Digits == {DigitChars[i] : i \in 1..Len(DigitChars)}

DigitVal(c) == (CHOOSE i \in 1..Len(DigitChars) : DigitChars[i] = c) - 1

\* usize / i64 Display: the decimal digits, most significant first
RECURSIVE Dec(_)
Dec(n) ==
  IF n < 10 THEN <<DigitChars[n + 1]>>
  ELSE Dec(n \div 10) \o <<DigitChars[(n % 10) + 1]>>

\* the whitespace serde_json skips between tokens
JsonWs == {" ", "\n", "\t", "\r"}

\* char::is_whitespace, as str::trim uses it: JSON's whitespace and more
\* (form feed among them)
UnicodeWs == JsonWs \cup {"\f"}

(***************************************************************************)
(* serde_json::from_str: a recursive-descent parser.  Positions are        *)
(* 1-based indexes into the text; a result is [ok, v, i] with i the        *)
(* position after the value.  Numbers are unsigned integers; a string      *)
(* escape is one of \" \\ \n.                                              *)
(***************************************************************************)
ParseFail == [ok |-> FALSE, v |-> Null, i |-> 0]

ParseOk(v, i) == [ok |-> TRUE, v |-> v, i |-> i]

RECURSIVE SkipWs(_, _)
SkipWs(s, i) ==
  IF i <= Len(s) /\ s[i] \in JsonWs THEN SkipWs(s, i + 1) ELSE i

\* the literal word w (null, true, false) at position i
ParseIdent(s, i, w, v) ==
  IF i + Len(w) - 1 <= Len(s) /\ SubSeq(s, i, i + Len(w) - 1) = w
  THEN ParseOk(v, i + Len(w))
  ELSE ParseFail

RECURSIVE ParseDigits(_, _, _)
ParseDigits(s, i, acc) ==
  IF i <= Len(s) /\ s[i] \in Digits
  THEN ParseDigits(s, i + 1, acc * 10 + DigitVal(s[i]))
  ELSE ParseOk(Num(acc), i)

\* a leading 0 stands alone: 01 is an invalid number
ParseNumber(s, i) ==
  IF s[i] = "0"
  THEN IF i + 1 <= Len(s) /\ s[i + 1] \in Digits THEN ParseFail
       ELSE ParseOk(Num(0), i + 1)
  ELSE ParseDigits(s, i + 1, DigitVal(s[i]))

\* the characters after an opening quote, up to the closing one; a raw
\* control character ends the parse with an error
RECURSIVE ParseStr(_, _, _)
ParseStr(s, i, acc) ==
  IF i > Len(s) THEN ParseFail
  ELSE IF s[i] = "\"" THEN ParseOk(Str(acc), i + 1)
  ELSE IF s[i] = "\\"
       THEN IF i + 1 > Len(s) THEN ParseFail
            ELSE IF s[i + 1] = "\"" THEN ParseStr(s, i + 2, Append(acc, "\""))
            ELSE IF s[i + 1] = "\\" THEN ParseStr(s, i + 2, Append(acc, "\\"))
            ELSE IF s[i + 1] = "n" THEN ParseStr(s, i + 2, Append(acc, "\n"))
            ELSE ParseFail
  ELSE IF s[i] \in {"\n", "\t", "\r", "\f"} THEN ParseFail
  ELSE ParseStr(s, i + 1, Append(acc, s[i]))

RECURSIVE ParseValue(_, _), ParseElems(_, _, _), ParseMembers(_, _, _)
ParseValue(s, i) ==
  LET j == SkipWs(s, i) IN
  IF j > Len(s) THEN ParseFail
  ELSE CASE s[j] = "n" -> ParseIdent(s, j, <<"n", "u", "l", "l">>, Null)
         [] s[j] = "t" -> ParseIdent(s, j, <<"t", "r", "u", "e">>, Bool(TRUE))
         [] s[j] = "f" ->
              ParseIdent(s, j, <<"f", "a", "l", "s", "e">>, Bool(FALSE))
         [] s[j] \in Digits -> ParseNumber(s, j)
         [] s[j] = "\"" -> ParseStr(s, j + 1, <<>>)
         [] s[j] = "[" ->
              LET k == SkipWs(s, j + 1) IN
              IF k <= Len(s) /\ s[k] = "]" THEN ParseOk(Arr(<<>>), k + 1)
              ELSE ParseElems(s, j + 1, <<>>)
         [] s[j] = "{" ->
              LET k == SkipWs(s, j + 1) IN
              IF k <= Len(s) /\ s[k] = "}" THEN ParseOk(Obj(<<>>), k + 1)
              ELSE ParseMembers(s, j + 1, <<>>)
         [] OTHER -> ParseFail

\* the elements of an array after "[" or ","; a trailing comma is an error
ParseElems(s, i, acc) ==
  LET r == ParseValue(s, i) IN
  IF ~r.ok THEN ParseFail
  ELSE LET k == SkipWs(s, r.i) IN
       IF k > Len(s) THEN ParseFail
       ELSE IF s[k] = "," THEN ParseElems(s, k + 1, Append(acc, r.v))
       ELSE IF s[k] = "]" THEN ParseOk(Arr(Append(acc, r.v)), k + 1)
       ELSE ParseFail

\* the fields of an object after "{" or ",": "key" : value
ParseMembers(s, i, acc) ==
  LET j == SkipWs(s, i) IN
  IF j > Len(s) \/ s[j] # "\"" THEN ParseFail
  ELSE LET key == ParseStr(s, j + 1, <<>>) IN
       IF ~key.ok THEN ParseFail
       ELSE LET c == SkipWs(s, key.i) IN
            IF c > Len(s) \/ s[c] # ":" THEN ParseFail
            ELSE LET r == ParseValue(s, c + 1) IN
                 IF ~r.ok THEN ParseFail
                 ELSE LET k == SkipWs(s, r.i) IN
                      IF k > Len(s) THEN ParseFail
                      ELSE IF s[k] = ","
                           THEN ParseMembers(s, k + 1,
                                             MapInsert(acc, key.v.s, r.v))
                      ELSE IF s[k] = "}"
                           THEN ParseOk(Obj(MapInsert(acc, key.v.s, r.v)),
                                        k + 1)
                      ELSE ParseFail

\* one value, then nothing but whitespace to the end of the text
from_str(s) ==
  LET r == ParseValue(s, 1) IN
  IF r.ok /\ SkipWs(s, r.i) > Len(s) THEN ParseOk(r.v, r.i) ELSE ParseFail

(***************************************************************************)
(* serde_json::to_string and to_string_pretty.                             *)
(***************************************************************************)
RECURSIVE Escape(_)
Escape(s) ==
  IF s = <<>> THEN <<>>
  ELSE (CASE Head(s) = "\"" -> <<"\\", "\"">>
          [] Head(s) = "\\" -> <<"\\", "\\">>
          [] Head(s) = "\n" -> <<"\\", "n">>
          [] OTHER -> <<Head(s)>>) \o Escape(Tail(s))

Quoted(s) == <<"\"">> \o Escape(s) \o <<"\"">>

ScalarText(v) ==
  CASE v.t = "Null" -> <<"n", "u", "l", "l">>
    [] v.t = "Bool" -> IF v.n = 1 THEN <<"t", "r", "u", "e">>
                       ELSE <<"f", "a", "l", "s", "e">>
    [] v.t = "Number" -> Dec(v.n)
    [] v.t = "String" -> Quoted(v.s)

RECURSIVE to_string(_), CompactKids(_, _)
to_string(v) ==
  CASE v.t = "Array" -> <<"[">> \o CompactKids(v.kids, FALSE) \o <<"]">>
    [] v.t = "Object" -> <<"{">> \o CompactKids(v.kids, TRUE) \o <<"}">>
    [] OTHER -> ScalarText(v)

CompactKids(kids, keyed) ==
  IF kids = <<>> THEN <<>>
  ELSE (IF keyed THEN Quoted(Head(kids).k) \o <<":">> ELSE <<>>)
       \o to_string(Head(kids).v)
       \o (IF Len(kids) > 1 THEN <<",">> ELSE <<>>)
       \o CompactKids(Tail(kids), keyed)

RECURSIVE Indent(_)
Indent(d) == IF d = 0 THEN <<>> ELSE <<" ", " ">> \o Indent(d - 1)

RECURSIVE Pretty(_, _), PrettyKids(_, _, _)
Pretty(v, d) ==
  CASE v.t = "Array" ->
         IF v.kids = <<>> THEN <<"[", "]">>
         ELSE <<"[", "\n">> \o PrettyKids(v.kids, FALSE, d + 1)
              \o <<"\n">> \o Indent(d) \o <<"]">>
    [] v.t = "Object" ->
         IF v.kids = <<>> THEN <<"{", "}">>
         ELSE <<"{", "\n">> \o PrettyKids(v.kids, TRUE, d + 1)
              \o <<"\n">> \o Indent(d) \o <<"}">>
    [] OTHER -> ScalarText(v)

PrettyKids(kids, keyed, d) ==
  IF kids = <<>> THEN <<>>
  ELSE Indent(d)
       \o (IF keyed THEN Quoted(Head(kids).k) \o <<":", " ">> ELSE <<>>)
       \o Pretty(Head(kids).v, d)
       \o (IF Len(kids) > 1 THEN <<",", "\n">> ELSE <<>>)
       \o PrettyKids(Tail(kids), keyed, d)

to_string_pretty(v) == Pretty(v, 0)

(***************************************************************************)
(* ParseResult and ParseError (json_reader.rs).  The diagnostic message a  *)
(* ParseError carries is the library's text and is left out; the kind is   *)
(* kept.                                                                   *)
(***************************************************************************)
Single(v) == [ok |-> TRUE, kind |-> "Single", values |-> <<v>>]

JsonL(vs) == [ok |-> TRUE, kind |-> "JsonL", values |-> vs]

ParseError(kind) == [ok |-> FALSE, kind |-> kind, values |-> <<>>]

NoResult == [ok |-> FALSE, kind |-> "none", values |-> <<>>]

\* what one call returns, and the format parsers it ran, in order
Ran(res, calls) == [res |-> res, calls |-> calls]

(***************************************************************************)
(* str::lines and str::trim.                                               *)
(***************************************************************************)
\* the position of the first "\n" at or after i, or Len(s) + 1
RECURSIVE FindNewline(_, _)
FindNewline(s, i) ==
  IF i > Len(s) \/ s[i] = "\n" THEN i ELSE FindNewline(s, i + 1)

\* a line ends at "\n" or "\r\n"; the terminator is dropped, and a final
\* line terminator opens no further (empty) line
StripCr(line, terminated) ==
  IF terminated /\ line # <<>> /\ line[Len(line)] = "\r"
  THEN SubSeq(line, 1, Len(line) - 1)
  ELSE line

RECURSIVE LinesFrom(_, _)
LinesFrom(s, i) ==
  IF i > Len(s) THEN <<>>
  ELSE LET e == FindNewline(s, i) IN
       <<StripCr(SubSeq(s, i, e - 1), e <= Len(s))>> \o LinesFrom(s, e + 1)

lines(s) == LinesFrom(s, 1)

RECURSIVE TrimStart(_)
TrimStart(s) ==
  IF s # <<>> /\ Head(s) \in UnicodeWs THEN TrimStart(Tail(s)) ELSE s

RECURSIVE TrimEnd(_)
TrimEnd(s) ==
  IF s # <<>> /\ s[Len(s)] \in UnicodeWs
  THEN TrimEnd(SubSeq(s, 1, Len(s) - 1))
  ELSE s

trim(s) == TrimEnd(TrimStart(s))

(***************************************************************************)
(* parse_json_content.                                                     *)
(***************************************************************************)
\* mutant of JsonlLoop: a blank line is parsed like any other line
RECURSIVE JsonlLoop_ParsesBlank(_, _, _)
JsonlLoop_ParsesBlank(ls, i, json_values) ==
  IF i > Len(ls) THEN json_values
  ELSE LET r == from_str(ls[i]) IN
       IF r.ok THEN JsonlLoop_ParsesBlank(ls, i + 1, Append(json_values, r.v))
       ELSE <<>>

\* mutant of JsonlLoop: the first line that fails ends the loop and the
\* values pushed so far are kept
RECURSIVE JsonlLoop_KeepsParsed(_, _, _)
JsonlLoop_KeepsParsed(ls, i, json_values) ==
  IF i > Len(ls) THEN json_values
  ELSE IF trim(ls[i]) = <<>> THEN JsonlLoop_KeepsParsed(ls, i + 1, json_values)
  ELSE LET r == from_str(ls[i]) IN
       IF r.ok THEN JsonlLoop_KeepsParsed(ls, i + 1, Append(json_values, r.v))
       ELSE json_values

\* the for loop over the lines: a blank line is skipped, a line that parses
\* is pushed, and the first line that fails clears the vector and ends the
\* loop
RECURSIVE JsonlLoop(_, _, _)
JsonlLoop(ls, i, json_values) ==
  IF i > Len(ls) THEN json_values
  ELSE IF trim(ls[i]) = <<>> THEN JsonlLoop(ls, i + 1, json_values)
  ELSE LET r == from_str(ls[i]) IN
       IF r.ok THEN JsonlLoop(ls, i + 1, Append(json_values, r.v))
       ELSE <<>>

ParseSingleJson(text) ==
  LET r == from_str(text) IN
  IF r.ok THEN Single(r.v) ELSE ParseError("InvalidJson")

parse_json_content(text) ==
  LET ls == lines(text)
      json_values == IF Len(ls) > 1 THEN JsonlLoop(ls, 1, <<>>) ELSE <<>>
  IN  Ran(IF json_values # <<>> THEN JsonL(json_values)
          ELSE ParseSingleJson(text),
          <<"json">>)

(***************************************************************************)
(* parse_yaml_content.  serde_yaml is a library outside the repository:    *)
(* its verdict on the text, lib = [ok, v], is an input of the model.       *)
(***************************************************************************)
parse_yaml_content(lib) ==
  Ran(IF lib.ok THEN Single(lib.v) ELSE ParseError("InvalidYaml"),
      <<"yaml">>)

(***************************************************************************)
(* parse_parquet_content.  The decoder's reading of the bytes is an input  *)
(* of the model: pq = [open, batches], a batch [ok, fields, cols] holding  *)
(* its number of rows, its schema fields [name, type] and one column per   *)
(* field, a column being a sequence of cells [null, v].  An Arrow array's  *)
(* class follows from its data type, so the downcasts do not fail.         *)
(***************************************************************************)
\* the value of one cell that is not null, by the column's data type
CellValue(type, cell) ==
  CASE type = "Utf8" -> Str(cell.v.s)
    [] type = "Int64" -> Num(cell.v.n)
    [] type = "Float64" -> IF cell.v.t = "Number" THEN Num(cell.v.n) ELSE Num(0)
    [] type = "Boolean" -> Bool(cell.v.n = 1)
    [] OTHER -> Str(<<"c", "o", "l">>)

RECURSIVE RowObject(_, _, _, _)
RowObject(batch, row_idx, col_idx, row_obj) ==
  IF col_idx > Len(batch.fields) THEN Obj(row_obj)
  ELSE LET cell == batch.cols[col_idx][row_idx]
           value == IF cell.null THEN Null
                    ELSE CellValue(batch.fields[col_idx].type, cell)
       IN  RowObject(batch, row_idx, col_idx + 1,
                     MapInsert(row_obj, batch.fields[col_idx].name, value))

NumRows(batch) == batch.rows

\* mutant of BatchRows: the rows of a batch replace those read before it
RECURSIVE BatchRows_LastBatch(_, _, _)
BatchRows_LastBatch(batches, i, all_rows) ==
  IF i > Len(batches) THEN [ok |-> TRUE, rows |-> all_rows]
  ELSE IF ~batches[i].ok THEN [ok |-> FALSE, rows |-> <<>>]
  ELSE BatchRows_LastBatch(batches, i + 1,
                           [r \in 1..NumRows(batches[i]) |->
                              RowObject(batches[i], r, 1, <<>>)])

\* the rows of the batches from the i-th on, or failure at a batch that
\* cannot be read
RECURSIVE BatchRows(_, _, _)
BatchRows(batches, i, all_rows) ==
  IF i > Len(batches) THEN [ok |-> TRUE, rows |-> all_rows]
  ELSE IF ~batches[i].ok THEN [ok |-> FALSE, rows |-> <<>>]
  ELSE BatchRows(batches, i + 1,
                 all_rows \o [r \in 1..NumRows(batches[i]) |->
                                RowObject(batches[i], r, 1, <<>>)])

\* mutant of parse_parquet_content: a batch that cannot be read is reported
\* as an I/O error
parse_parquet_content_IoError(pq) ==
  LET got == BatchRows(pq.batches, 1, <<>>) IN
  Ran(IF ~pq.open THEN ParseError("InvalidParquet")
      ELSE IF ~got.ok THEN ParseError("IoError")
      ELSE Single(Arr(got.rows)),
      <<"parquet">>)

parse_parquet_content(pq) ==
  LET got == BatchRows(pq.batches, 1, <<>>) IN
  Ran(IF ~pq.open THEN ParseError("InvalidParquet")
      ELSE IF ~got.ok THEN ParseError("InvalidParquet")
      ELSE Single(Arr(got.rows)),
      <<"parquet">>)

(***************************************************************************)
(* parse_text_content and parse_file.                                      *)
(***************************************************************************)
\* mutant of parse_text_content: when YAML fails too, the JSON error is kept
parse_text_content_KeepsJsonError(text, lib) ==
  LET j == parse_json_content(text) IN
  IF j.res.ok THEN j
  ELSE LET y == parse_yaml_content(lib) IN
       Ran(IF y.res.ok THEN y.res ELSE j.res, j.calls \o y.calls)

parse_text_content(text, lib) ==
  LET j == parse_json_content(text) IN
  IF j.res.ok THEN j
  ELSE LET y == parse_yaml_content(lib) IN Ran(y.res, j.calls \o y.calls)

UpperChars ==
  <<"A", "B", "C", "D", "E", "F", "G", "H", "I", "J", "K", "L", "M",
    "N", "O", "P", "Q", "R", "S", "T", "U", "V", "W", "X", "Y", "Z">>

LowerChars ==
  <<"a", "b", "c", "d", "e", "f", "g", "h", "i", "j", "k", "l", "m",
    "n", "o", "p", "q", "r", "s", "t", "u", "v", "w", "x", "y", "z">>

LowerChar(c) ==
  IF \E i \in 1..Len(UpperChars) : UpperChars[i] = c
  THEN LowerChars[CHOOSE i \in 1..Len(UpperChars) : UpperChars[i] = c]
  ELSE c

\* mutant of to_lowercase: the extension is compared as written
to_lowercase_AsWritten(s) == s

to_lowercase(s) == [i \in 1..Len(s) |-> LowerChar(s[i])]

\* the position of the last "." of a file name, 0 if it has none
RECURSIVE LastDot(_, _)
LastDot(name, i) ==
  IF i = 0 THEN 0 ELSE IF name[i] = "." THEN i ELSE LastDot(name, i - 1)

\* Path::extension, with unwrap_or(""): the text after the last ".", none
\* when the name has no "." or only a leading one
extension(name) ==
  LET d == LastDot(name, Len(name)) IN
  IF d <= 1 THEN <<>> ELSE SubSeq(name, d + 1, Len(name))

\* mutant of parse_file: a file of unknown extension that cannot be read is
\* parsed as the empty text
parse_file_ReadOrEmpty(name, readable, text, lib, pq) ==
  LET ext == to_lowercase(extension(name))
      io == Ran(ParseError("IoError"), <<>>)
  IN  CASE ext \in {<<"j", "s", "o", "n">>, <<"j", "s", "o", "n", "l">>} ->
             IF readable THEN parse_json_content(text) ELSE io
        [] ext \in {<<"y", "a", "m", "l">>, <<"y", "m", "l">>} ->
             IF readable THEN parse_yaml_content(lib) ELSE io
        [] ext = <<"p", "a", "r", "q", "u", "e", "t">> ->
             IF readable THEN parse_parquet_content(pq) ELSE io
        [] OTHER ->
             parse_text_content(IF readable THEN text ELSE <<>>, lib)

\* a file: its name, whether reading it succeeds, its text, the YAML
\* library's verdict on that text and the Parquet decoder's reading of it
parse_file(name, readable, text, lib, pq) ==
  LET ext == to_lowercase(extension(name))
      io == Ran(ParseError("IoError"), <<>>)
  IN  CASE ext \in {<<"j", "s", "o", "n">>, <<"j", "s", "o", "n", "l">>} ->
             IF readable THEN parse_json_content(text) ELSE io
        [] ext \in {<<"y", "a", "m", "l">>, <<"y", "m", "l">>} ->
             IF readable THEN parse_yaml_content(lib) ELSE io
        [] ext = <<"p", "a", "r", "q", "u", "e", "t">> ->
             IF readable THEN parse_parquet_content(pq) ELSE io
        [] OTHER ->
             IF readable THEN parse_text_content(text, lib) ELSE io

(***************************************************************************)
(* path_formatting: build_object_path and build_array_path.  The module is *)
(* not among the source files; the two functions follow the path rendering *)
(* contract: "." and the key, and "[i]" with no separator.                 *)
(***************************************************************************)
build_object_path(path, key) == path \o <<".">> \o key

build_array_path(path, idx) == path \o <<"[">> \o Dec(idx) \o <<"]">>

(***************************************************************************)
(* value_formatting.rs: format_value_preview and format_value_literal.     *)
(***************************************************************************)
\* the number of characters of a string a preview shows
PreviewChars == 50

\* mutant of format_value_preview: a string of exactly 50 characters is
\* truncated too
format_value_preview_OffByOne(value) ==
  CASE value.t = "String" ->
         IF Len(value.s) >= PreviewChars
         THEN <<"\"">> \o SubSeq(value.s, 1, PreviewChars)
              \o <<"\"", ".", ".", ".">>
         ELSE <<"\"">> \o value.s \o <<"\"">>
    [] value.t = "Array" ->
         <<"A", "r", "r", "a", "y", "[">> \o Dec(Len(value.kids)) \o <<"]">>
    [] value.t = "Object" ->
         <<"O", "b", "j", "e", "c", "t", "{">> \o Dec(Len(value.kids))
         \o <<"}">>
    [] OTHER -> ScalarText(value)

format_value_preview(value) ==
  CASE value.t = "String" ->
         IF Len(value.s) > PreviewChars
         THEN <<"\"">> \o SubSeq(value.s, 1, PreviewChars)
              \o <<"\"", ".", ".", ".">>
         ELSE <<"\"">> \o value.s \o <<"\"">>
    [] value.t = "Array" ->
         <<"A", "r", "r", "a", "y", "[">> \o Dec(Len(value.kids)) \o <<"]">>
    [] value.t = "Object" ->
         <<"O", "b", "j", "e", "c", "t", "{">> \o Dec(Len(value.kids))
         \o <<"}">>
    [] OTHER -> ScalarText(value)

format_value_literal(value) ==
  IF value.t = "String" THEN value.s ELSE to_string_pretty(value)

(***************************************************************************)
(* tree_model.rs: TreeNode and build_tree_from_parse_result.               *)
(***************************************************************************)
TreeNode(name, preview, path, full_value, display_value, children) ==
  [name |-> name, preview |-> preview, path |-> path,
   full_value |-> full_value, display_value |-> display_value,
   children |-> children]

\* the name and the path of the i-th (1-based) child of a value at path
ChildName(value, i) ==
  IF value.t = "Object" THEN value.kids[i].k
  ELSE <<"[">> \o Dec(i - 1) \o <<"]">>

ChildPath(value, path, i) ==
  IF value.t = "Object" THEN build_object_path(path, value.kids[i].k)
  ELSE build_array_path(path, i - 1)

\* mutant of from_value: an array element is numbered from 1
RECURSIVE from_value_OneBased(_, _, _)
from_value_OneBased(name, path, value) ==
  TreeNode(name, format_value_preview(value), path, to_string(value),
           format_value_literal(value),
           [i \in 1..Len(value.kids) |->
              from_value_OneBased(
                IF value.t = "Object" THEN value.kids[i].k
                ELSE <<"[">> \o Dec(i) \o <<"]">>,
                IF value.t = "Object"
                THEN build_object_path(path, value.kids[i].k)
                ELSE build_array_path(path, i),
                value.kids[i].v)])

\* mutant of from_value: display_value is the compact JSON text
RECURSIVE from_value_DisplayCompact(_, _, _)
from_value_DisplayCompact(name, path, value) ==
  TreeNode(name, format_value_preview(value), path, to_string(value),
           to_string(value),
           [i \in 1..Len(value.kids) |->
              from_value_DisplayCompact(ChildName(value, i),
                                        ChildPath(value, path, i),
                                        value.kids[i].v)])

RECURSIVE from_value(_, _, _)
from_value(name, path, value) ==
  TreeNode(name, format_value_preview(value), path, to_string(value),
           format_value_literal(value),
           [i \in 1..Len(value.kids) |->
              from_value(ChildName(value, i), ChildPath(value, path, i),
                         value.kids[i].v)])

JsonlSuffix == <<" ", "(", "J", "S", "O", "N", "L", ")">>

LinePrefix == <<"L", "i", "n", "e", " ">>

ObjectsSuffix == <<" ", "o", "b", "j", "e", "c", "t", "s">>

\* json!({ "lines": values.len() })
LinesValue(n) == Obj(<<Field(<<"l", "i", "n", "e", "s">>, Num(n))>>)

\* mutant of build_tree_from_jsonl: the line children are addressed from
\* the reserved root marker instead of the display name
build_tree_from_jsonl_DollarRoot(values, display_name) ==
  TreeNode(display_name \o JsonlSuffix,
           Dec(Len(values)) \o ObjectsSuffix,
           display_name,
           to_string(LinesValue(Len(values))),
           format_value_literal(LinesValue(Len(values))),
           [i \in 1..Len(values) |->
              from_value(LinePrefix \o Dec(i),
                         build_array_path(<<"$">>, i - 1), values[i])])

build_tree_from_jsonl(values, display_name) ==
  TreeNode(display_name \o JsonlSuffix,
           Dec(Len(values)) \o ObjectsSuffix,
           display_name,
           to_string(LinesValue(Len(values))),
           format_value_literal(LinesValue(Len(values))),
           [i \in 1..Len(values) |->
              from_value(LinePrefix \o Dec(i),
                         build_array_path(display_name, i - 1), values[i])])

build_tree_from_parse_result(res, display_name) ==
  IF res.kind = "Single"
  THEN from_value(display_name, <<"$">>, res.values[1])
  ELSE build_tree_from_jsonl(res.values, display_name)

(***************************************************************************)
(* value_formatting.rs: format_value_from_string.                          *)
(***************************************************************************)
\* mutant of format_value_from_string: a text that does not parse gives the
\* fallback
format_value_from_string_FallsBack(full_value, preview_fallback) ==
  IF full_value # <<>>
  THEN LET r == from_str(full_value) IN
       IF r.ok THEN format_value_literal(r.v) ELSE preview_fallback
  ELSE preview_fallback

format_value_from_string(full_value, preview_fallback) ==
  IF full_value # <<>>
  THEN LET r == from_str(full_value) IN
       IF r.ok THEN format_value_literal(r.v) ELSE full_value
  ELSE preview_fallback

(***************************************************************************)
(* search.rs: find_all_occurrences and find_occurrence_to_highlight.  The  *)
(* module is not among the source files; the two functions follow the      *)
(* spec: the non-overlapping occurrences of the query, left to right, as   *)
(* character ranges (start, end), start counted from 0 and end exclusive;  *)
(* and the range of the occurrence a value match stands for.               *)
(***************************************************************************)
None == [some |-> FALSE]

Some(v) == [some |-> TRUE, v |-> v]

RECURSIVE OccurrencesFrom(_, _, _)
OccurrencesFrom(hay, needle, i) ==
  IF i + Len(needle) - 1 > Len(hay) THEN <<>>
  ELSE IF SubSeq(hay, i, i + Len(needle) - 1) = needle
       THEN <<<<i - 1, i - 1 + Len(needle)>>>>
            \o OccurrencesFrom(hay, needle, i + Len(needle))
       ELSE OccurrencesFrom(hay, needle, i + 1)

find_all_occurrences(haystack, needle, case_sensitive) ==
  IF needle = <<>> THEN <<>>
  ELSE IF case_sensitive THEN OccurrencesFrom(haystack, needle, 1)
  ELSE OccurrencesFrom(to_lowercase(haystack), to_lowercase(needle), 1)

\* mutant of find_occurrence_to_highlight: a match past the occurrences of
\* the text stands for the last of them, and a key match for the first
find_occurrence_to_highlight_Nearest(path_matches, idx, text, query, case_sensitive) ==
  LET at == {i \in 1..Len(path_matches) : path_matches[i][1] = idx} IN
  IF at = {} THEN None
  ELSE LET i == CHOOSE j \in at : TRUE
           k == Cardinality({j \in 1..(i - 1) : ~path_matches[j][2]})
           occ == find_all_occurrences(text, query, case_sensitive)
       IN  IF occ = <<>> THEN None
           ELSE IF path_matches[i][2] THEN Some(occ[1])
           ELSE IF k < Len(occ) THEN Some(occ[k + 1])
           ELSE Some(occ[Len(occ)])

\* path_matches: the (global index, is_key_match) pairs of one leaf, in
\* match-list order.  The k-th value match of the leaf stands for the k-th
\* occurrence in the rendered text.
find_occurrence_to_highlight(path_matches, idx, text, query, case_sensitive) ==
  LET at == {i \in 1..Len(path_matches) : path_matches[i][1] = idx} IN
  IF at = {} THEN None
  ELSE LET i == CHOOSE j \in at : TRUE
           k == Cardinality({j \in 1..(i - 1) : ~path_matches[j][2]})
           occ == find_all_occurrences(text, query, case_sensitive)
       IN  IF path_matches[i][2] THEN None
           ELSE IF k < Len(occ) THEN Some(occ[k + 1])
           ELSE None

(***************************************************************************)
(* tree_builder.rs: the rows of the GTK tree store.  A row holds the four  *)
(* columns name, preview, path and full_value, and its child rows.         *)
(***************************************************************************)
Row(name, preview, path, full_value, children) ==
  [name |-> name, preview |-> preview, path |-> path,
   full_value |-> full_value, children |-> children]

\* set_tree_node_values, then populate_tree under the row
RECURSIVE populate_tree(_, _)
\* mutant of set_tree_node_values: the value column holds the rendered text
set_tree_node_values_Rendered(name, value, path) ==
  Row(name, format_value_preview(value), path, format_value_literal(value),
      populate_tree(value, path))

set_tree_node_values(name, value, path) ==
  Row(name, format_value_preview(value), path, to_string(value),
      populate_tree(value, path))

populate_tree(value, path) ==
  [i \in 1..Len(value.kids) |->
     IF value.t = "Object"
     THEN set_tree_node_values(value.kids[i].k, value.kids[i].v,
                               build_object_path(path, value.kids[i].k))
     ELSE set_tree_node_values(<<"[">> \o Dec(i - 1) \o <<"]">>,
                               value.kids[i].v,
                               build_array_path(path, i - 1))]

\* the root row add_single_value_to_tree appends
add_single_value_to_tree(value, root_name) ==
  set_tree_node_values(root_name, value, <<"$">>)

\* the root row add_jsonl_to_tree appends
add_jsonl_to_tree(json_values, name, root_path) ==
  Row(name \o JsonlSuffix,
      Dec(Len(json_values)) \o ObjectsSuffix,
      root_path,
      to_string(LinesValue(Len(json_values))),
      [i \in 1..Len(json_values) |->
         set_tree_node_values(LinePrefix \o Dec(i), json_values[i],
                              build_array_path(root_path, i - 1))])

(***************************************************************************)
(* main.rs: the window.  Its state is one record:                          *)
(*   tree_store              the root rows                                 *)
(*   selection               the selected row's tree path (indexes from 0) *)
(*   search_toolbar          whether the search toolbar is shown           *)
(*   search_entry            the text of the search entry                  *)
(*   case_sensitive_check    the "Case sensitive" check button             *)
(*   prev_button, next_button, remove_file_menu_item   sensitivity         *)
(*   search_matches, search_current_index, current_search_text,            *)
(*   current_case_sensitive  the search state                              *)
(*   path_entry, value_text_buffer   the texts of the right pane           *)
(*   highlight               the range tagged search-highlight             *)
(* Row expansion and scrolling are not modelled: no handler reads them.    *)
(***************************************************************************)
SelectPrompt ==
  <<"S", "e", "l", "e", "c", "t", " ", "a", "n", " ", "i", "t", "e",
    "m", " ", "i", "n", " ", "t", "h", "e", " ", "t", "r", "e", "e",
    " ", "t", "o", " ", "v", "i", "e", "w", " ", "i", "t", "s", " ",
    "J", "S", "O", "N", " ", "p", "a", "t", "h", " ", "a", "n", "d",
    " ", "v", "a", "l", "u", "e">>

ClipboardEmptyText ==
  <<"C", "l", "i", "p", "b", "o", "a", "r", "d", " ", "i", "s", " ",
    "e", "m", "p", "t", "y", " ", "o", "r", " ", "d", "o", "e", "s",
    " ", "n", "o", "t", " ", "c", "o", "n", "t", "a", "i", "n", " ",
    "t", "e", "x", "t">>

FileErrorPrefix ==
  <<"E", "r", "r", "o", "r", " ", "p", "a", "r", "s", "i", "n", "g",
    " ", "f", "i", "l", "e">>

ContentErrorPrefix ==
  <<"E", "r", "r", "o", "r", " ", "p", "a", "r", "s", "i", "n", "g",
    " ", "c", "o", "n", "t", "e", "n", "t">>

ClipboardName == <<"C", "l", "i", "p", "b", "o", "a", "r", "d">>

\* Display for ParseError, without the library's message
ErrorKindText(kind) ==
  CASE kind = "InvalidJson" ->
         <<"I", "n", "v", "a", "l", "i", "d", " ", "J", "S", "O", "N", ":", " ">>
    [] kind = "InvalidYaml" ->
         <<"I", "n", "v", "a", "l", "i", "d", " ", "Y", "A", "M", "L", ":", " ">>
    [] kind = "InvalidParquet" ->
         <<"I", "n", "v", "a", "l", "i", "d", " ", "P", "a", "r", "q", "u",
           "e", "t", ":", " ">>
    [] OTHER -> <<"I", "/", "O", " ", "e", "r", "r", "o", "r", ":", " ">>

\* the window as build_ui leaves it when no file is named on the command
\* line
InitialGui ==
  [tree_store |-> <<>>,
   selection |-> None,
   search_toolbar |-> FALSE,
   search_entry |-> <<>>,
   case_sensitive_check |-> FALSE,
   prev_button |-> TRUE,
   next_button |-> TRUE,
   remove_file_menu_item |-> FALSE,
   search_matches |-> <<>>,
   search_current_index |-> None,
   current_search_text |-> <<>>,
   current_case_sensitive |-> FALSE,
   path_entry |-> <<>>,
   value_text_buffer |-> <<>>,
   highlight |-> None]

\* whether the store has a row at a tree path, and the row
RECURSIVE HasRow(_, _)
HasRow(rows, path) ==
  /\ path # <<>>
  /\ Head(path) + 1 \in 1..Len(rows)
  /\ Len(path) > 1 => HasRow(rows[Head(path) + 1].children, Tail(path))

RECURSIVE RowAt(_, _)
RowAt(rows, path) ==
  IF Len(path) = 1 THEN rows[Head(path) + 1]
  ELSE RowAt(rows[Head(path) + 1].children, Tail(path))

\* TextBuffer::set_text: the new text carries no tag
set_text(g, text) == [g EXCEPT !.value_text_buffer = text, !.highlight = None]

\* the handler of the selection's changed signal
selection_changed(g) ==
  IF g.selection.some
  THEN LET row == RowAt(g.tree_store, g.selection.v) IN
       [set_text(g, format_value_from_string(row.full_value, row.preview))
          EXCEPT !.path_entry = row.path,
                 !.remove_file_menu_item = (Len(g.selection.v) = 1)]
  ELSE [set_text(g, SelectPrompt)
          EXCEPT !.path_entry = <<>>, !.remove_file_menu_item = FALSE]

\* TreeSelection::select_path: a path without a row, or the selected path,
\* changes nothing
select_path(g, path) ==
  IF HasRow(g.tree_store, path) /\ g.selection # Some(path)
  THEN selection_changed([g EXCEPT !.selection = Some(path)])
  ELSE g

unselect_all(g) ==
  IF g.selection.some THEN selection_changed([g EXCEPT !.selection = None])
  ELSE g

(***************************************************************************)
(* main.rs: the search.  A match is a leaf row's tree path and whether the *)
(* occurrence is in the row's name or in its rendered value.               *)
(***************************************************************************)
SearchMatch(path, is_key_match) == [path |-> path, is_key_match |-> is_key_match]

\* search_tree on the row at tree path `path`, and on a run of sibling rows
RECURSIVE search_tree(_, _, _, _)
RECURSIVE SearchRows(_, _, _, _, _)
\* mutant of LeafMatches: the value matches of a leaf are pushed first
LeafMatches_ValuesFirst(path, key_occurrences, value_occurrences) ==
  [i \in 1..Len(value_occurrences) |-> SearchMatch(path, FALSE)]
  \o [i \in 1..Len(key_occurrences) |-> SearchMatch(path, TRUE)]

\* the two for loops that push the matches of a leaf
LeafMatches(path, key_occurrences, value_occurrences) ==
  [i \in 1..Len(key_occurrences) |-> SearchMatch(path, TRUE)]
  \o [i \in 1..Len(value_occurrences) |-> SearchMatch(path, FALSE)]

\* mutant of search_tree: a row with children is searched like a leaf,
\* and its children after it
search_tree_AllRows(row, path, search_text, case_sensitive) ==
  LeafMatches(
    path,
    find_all_occurrences(row.name, search_text, case_sensitive),
    find_all_occurrences(
      format_value_from_string(row.full_value, row.preview),
      search_text, case_sensitive))
  \o SearchRows(row.children, path, 1, search_text, case_sensitive)

search_tree(row, path, search_text, case_sensitive) ==
  IF row.children = <<>>
  THEN LeafMatches(
         path,
         find_all_occurrences(row.name, search_text, case_sensitive),
         find_all_occurrences(
           format_value_from_string(row.full_value, row.preview),
           search_text, case_sensitive))
  ELSE SearchRows(row.children, path, 1, search_text, case_sensitive)

SearchRows(rows, parent, i, search_text, case_sensitive) ==
  IF i > Len(rows) THEN <<>>
  ELSE search_tree(rows[i], Append(parent, i - 1), search_text, case_sensitive)
       \o SearchRows(rows, parent, i + 1, search_text, case_sensitive)

\* Vec<i32> ordering: lexicographic, a proper prefix first
RECURSIVE IndicesLeq(_, _)
IndicesLeq(a, b) ==
  IF a = <<>> THEN TRUE
  ELSE IF b = <<>> THEN FALSE
  ELSE IF Head(a) # Head(b) THEN Head(a) < Head(b)
  ELSE IndicesLeq(Tail(a), Tail(b))

\* mutant of AtOrAfter: the paths are compared in document order, whatever
\* their depths
AtOrAfter_DocumentOrder(current_path, match_path) ==
  IndicesLeq(current_path, match_path)

\* the closure of position(): whether a match counts as at or after the
\* selected row, by depth first and then by indices
AtOrAfter(current_path, match_path) ==
  IF Len(current_path) < Len(match_path) THEN TRUE
  ELSE IF Len(current_path) > Len(match_path) THEN FALSE
  ELSE IndicesLeq(current_path, match_path)

\* mutant of starting_index: with no match at or after the selection there
\* is no current match
starting_index_NoFallback(matches, current_selection) ==
  IF matches = <<>> THEN None
  ELSE IF current_selection.some
  THEN LET hits == {i \in 1..Len(matches) :
                      AtOrAfter(current_selection.v, matches[i].path)}
       IN  IF hits # {}
           THEN Some((CHOOSE i \in hits : \A j \in hits : i <= j) - 1)
           ELSE None
  ELSE Some(0)

starting_index(matches, current_selection) ==
  IF matches = <<>> THEN None
  ELSE IF current_selection.some
  THEN LET hits == {i \in 1..Len(matches) :
                      AtOrAfter(current_selection.v, matches[i].path)}
       IN  IF hits # {}
           THEN Some((CHOOSE i \in hits : \A j \in hits : i <= j) - 1)
           ELSE Some(0)
  ELSE Some(0)

\* mutant of SetMatches: the current index is left as it was
SetMatches_KeepsIndex(g, matches, current_selection) ==
  [g EXCEPT !.search_matches = matches]

\* the two assignments perform_search ends with
SetMatches(g, matches, current_selection) ==
  [g EXCEPT !.search_matches = matches,
            !.search_current_index =
               starting_index(matches, current_selection)]

perform_search(g, search_text, case_sensitive, current_selection) ==
  SetMatches(g,
             SearchRows(g.tree_store, <<>>, 1, search_text, case_sensitive),
             current_selection)

\* mutant of PathMatches: the matches of every row are taken
PathMatches_AnyPath(matches, path) ==
  [i \in 1..Len(matches) |-> <<i - 1, matches[i].is_key_match>>]

\* the (global index, is_key_match) pairs of the matches on one tree path
PathMatches(matches, path) ==
  LET RECURSIVE From(_)
      From(i) ==
        IF i > Len(matches) THEN <<>>
        ELSE (IF matches[i].path = path
              THEN <<<<i - 1, matches[i].is_key_match>>>> ELSE <<>>)
             \o From(i + 1)
  IN  From(1)

\* navigate_to_match from the tag lookup on: the range is tagged for a value
\* match when the occurrence is found and lies within the text
ApplyTag(g, is_key_match, range, formatted_chars) ==
  IF /\ ~is_key_match
     /\ range.some
     /\ range.v[1] <= formatted_chars
     /\ range.v[2] <= formatted_chars
     /\ range.v[1] < range.v[2]
  THEN [g EXCEPT !.highlight = range]
  ELSE g

\* navigate_to_match from value_text_buffer.set_text on
ShowValue(g, matches, idx, formatted_value, search_text, case_sensitive) ==
  ApplyTag(set_text(g, formatted_value),
           matches[idx + 1].is_key_match,
           find_occurrence_to_highlight(
             PathMatches(matches, matches[idx + 1].path), idx,
             formatted_value, search_text, case_sensitive),
           Len(formatted_value))

\* navigate_to_match after select_path: nothing more when the store has no
\* row at the match's path
ShowMatch(g, matches, idx, search_text, case_sensitive) ==
  IF HasRow(g.tree_store, matches[idx + 1].path)
  THEN ShowValue(g, matches, idx,
                 format_value_from_string(
                   RowAt(g.tree_store, matches[idx + 1].path).full_value,
                   RowAt(g.tree_store, matches[idx + 1].path).preview),
                 search_text, case_sensitive)
  ELSE g

navigate_to_match(g, matches, index, search_text, case_sensitive) ==
  IF index.some /\ index.v < Len(matches)
  THEN ShowMatch(select_path(g, matches[index.v + 1].path), matches, index.v,
                 search_text, case_sensitive)
  ELSE g

\* the end of the handlers that run a search: the buttons, and the move to
\* the starting match
ShowFirst(g, search_text, case_sensitive) ==
  IF g.search_matches # <<>>
  THEN navigate_to_match(
         [g EXCEPT !.prev_button = TRUE, !.next_button = TRUE],
         g.search_matches, g.search_current_index,
         search_text, case_sensitive)
  ELSE [g EXCEPT !.prev_button = FALSE, !.next_button = FALSE]

\* the body the search entry's changed handler and the check button's
\* toggled handler share, for a non-empty search text
SearchAgain(g, search_text) ==
  ShowFirst(
    perform_search(
      [g EXCEPT !.current_search_text = search_text,
                !.current_case_sensitive = g.case_sensitive_check],
      search_text, g.case_sensitive_check, g.selection),
    search_text, g.case_sensitive_check)

\* mutant of search_entry_changed: an empty text only disables the buttons
search_entry_changed_KeepsMatches(g) ==
  IF g.search_entry = <<>>
  THEN [g EXCEPT !.prev_button = FALSE, !.next_button = FALSE]
  ELSE SearchAgain(g, g.search_entry)

\* search_entry.connect_changed
search_entry_changed(g) ==
  IF g.search_entry = <<>>
  THEN [g EXCEPT !.search_matches = <<>>,
                 !.search_current_index = None,
                 !.prev_button = FALSE,
                 !.next_button = FALSE]
  ELSE SearchAgain(g, g.search_entry)

\* Entry::set_text: the changed signal is emitted when the text changes
entry_set_text(g, text) ==
  IF g.search_entry = text THEN g
  ELSE search_entry_changed([g EXCEPT !.search_entry = text])

\* case_sensitive_check.connect_toggled
case_sensitive_toggled(g) ==
  IF g.search_entry = <<>> THEN g ELSE SearchAgain(g, g.search_entry)

\* mutant of PrevIndex: Previous stops at the first match
PrevIndex_NoWrap(idx, len) == IF idx = 0 THEN 0 ELSE idx - 1

\* the index Previous moves to
PrevIndex(idx, len) == IF idx = 0 THEN len - 1 ELSE idx - 1

\* mutant of NextIndex: Next stops at the last match
NextIndex_NoWrap(idx, len) == IF idx = len - 1 THEN idx ELSE idx + 1

\* the index Next and Enter move to
NextIndex(idx, len) == IF idx = len - 1 THEN 0 ELSE idx + 1

\* the body of the handlers of Previous, Next and Enter
Step(g, new_idx) ==
  IF g.search_matches = <<>> THEN g
  ELSE IF g.search_current_index.some
  THEN navigate_to_match(
         [g EXCEPT !.search_current_index = Some(new_idx)],
         g.search_matches, Some(new_idx),
         g.current_search_text, g.current_case_sensitive)
  ELSE g

prev_button_clicked(g) ==
  Step(g, PrevIndex(g.search_current_index.v, Len(g.search_matches)))

next_button_clicked(g) ==
  Step(g, NextIndex(g.search_current_index.v, Len(g.search_matches)))

search_entry_activate(g) ==
  Step(g, NextIndex(g.search_current_index.v, Len(g.search_matches)))

close_search_button_clicked(g) ==
  entry_set_text([g EXCEPT !.search_toolbar = FALSE], <<>>)

find_menu_item_activate(g) == [g EXCEPT !.search_toolbar = TRUE]

(***************************************************************************)
(* main.rs: loading and removing documents.                                *)
(***************************************************************************)
\* mutant of load_parse_result: a failed load leaves an empty root behind
load_parse_result_AddsRoot(g, res, default_name, error_prefix) ==
  IF res.ok
  THEN IF res.kind = "JsonL"
       THEN [g EXCEPT !.tree_store =
               Append(@, add_jsonl_to_tree(res.values, default_name,
                                           default_name))]
       ELSE [g EXCEPT !.tree_store =
               Append(@, add_single_value_to_tree(res.values[1],
                                                  default_name))]
  ELSE [set_text(g, error_prefix \o <<":", " ">> \o ErrorKindText(res.kind))
          EXCEPT !.tree_store =
            Append(@, Row(default_name, <<>>, <<"$">>, <<>>, <<>>))]

load_parse_result(g, res, default_name, error_prefix) ==
  IF res.ok
  THEN IF res.kind = "JsonL"
       THEN [g EXCEPT !.tree_store =
               Append(@, add_jsonl_to_tree(res.values, default_name,
                                           default_name))]
       ELSE [g EXCEPT !.tree_store =
               Append(@, add_single_value_to_tree(res.values[1],
                                                  default_name))]
  ELSE set_text(g, error_prefix \o <<":", " ">> \o ErrorKindText(res.kind))

\* TreeStore::remove of root row r, which is selected.  The view drops the
\* selection; when the removed row was also the cursor row and a root
\* follows it, the view moves cursor and selection to that root (moves).
\* The model does not track the cursor: both outcomes are possible.
RemoveAt(rows, r) == SubSeq(rows, 1, r) \o SubSeq(rows, r + 2, Len(rows))

tree_store_remove(g, r, moves) ==
  LET store == RemoveAt(g.tree_store, r) IN
  selection_changed(
    [g EXCEPT !.tree_store = store,
              !.selection = IF moves /\ r < Len(store) THEN Some(<<r>>)
                            ELSE None])

\* remove_root_node's last step: the first root, if any, is selected
SelectFirst(g) ==
  IF g.tree_store # <<>> THEN select_path(g, <<0>>) ELSE g

\* mutant of remove_root_node: the root above any selected row is removed
remove_root_node_AnyRow(g, moves) ==
  IF g.selection.some
  THEN SelectFirst(
         [set_text(tree_store_remove(g, g.selection.v[1], moves), SelectPrompt)
            EXCEPT !.path_entry = <<>>])
  ELSE g

remove_root_node(g, moves) ==
  IF g.selection.some /\ Len(g.selection.v) = 1
  THEN SelectFirst(
         [set_text(tree_store_remove(g, g.selection.v[1], moves), SelectPrompt)
            EXCEPT !.path_entry = <<>>])
  ELSE g

(***************************************************************************)
(* ffi.rs: the C entry points.  A C string argument is a null pointer,     *)
(* bytes that are not UTF-8, or a text.  A Result<T, String> is [ok, v] or *)
(* [ok, message].  A closure handed to run_ffi_operation returns its       *)
(* Result or panics; whether it panics is an input of the model.           *)
(***************************************************************************)
NullPtr == [ptr |-> "null"]

NotUtf8 == [ptr |-> "bytes"]

CStrOf(text) == [ptr |-> "text", text |-> text]

Ok(v) == [ok |-> TRUE, v |-> v]

Err(message) == [ok |-> FALSE, message |-> message]

NullPointerMessage ==
  <<"R", "e", "c", "e", "i", "v", "e", "d", " ", "n", "u", "l", "l",
      " ", "p", "o", "i", "n", "t", "e", "r">>

InvalidUtf8Message ==
  <<"I", "n", "v", "a", "l", "i", "d", " ", "U", "T", "F", "-", "8",
      " ", "d", "a", "t", "a">>

PanicMessage ==
  <<"R", "u", "s", "t", " ", "p", "a", "n", "i", "c", " ", "w", "h",
      "i", "l", "e", " ", "p", "r", "o", "c", "e", "s", "s", "i", "n",
      "g", " ", "r", "e", "q", "u", "e", "s", "t">>

DefaultFileName == <<"F", "i", "l", "e">>

DefaultContentName == <<"C", "o", "n", "t", "e", "n", "t">>

cstr_to_str(p) ==
  IF p.ptr = "null" THEN Err(NullPointerMessage)
  ELSE IF p.ptr = "bytes" THEN Err(InvalidUtf8Message)
  ELSE Ok(p.text)

\* #[derive(Serialize)] of TreeNode, and of FfiResponse with the tag
\* "status" in lower case
RECURSIVE SerializeTreeNode(_)
SerializeTreeNode(node) ==
  Obj(<<Field(<<"n", "a", "m", "e">>, Str(node.name)),
        Field(<<"p", "r", "e", "v", "i", "e", "w">>, Str(node.preview)),
        Field(<<"p", "a", "t", "h">>, Str(node.path)),
        Field(<<"f", "u", "l", "l", "_", "v", "a", "l", "u", "e">>,
              Str(node.full_value)),
        Field(<<"d", "i", "s", "p", "l", "a", "y", "_", "v", "a", "l", "u",
                "e">>, Str(node.display_value)),
        Field(<<"c", "h", "i", "l", "d", "r", "e", "n">>,
              Arr([i \in 1..Len(node.children) |->
                     SerializeTreeNode(node.children[i])]))>>)

FfiResponse(result) ==
  IF result.ok
  THEN Obj(<<Field(<<"s", "t", "a", "t", "u", "s">>, Str(<<"o", "k">>)),
             Field(<<"r", "o", "o", "t">>, SerializeTreeNode(result.v))>>)
  ELSE Obj(<<Field(<<"s", "t", "a", "t", "u", "s">>,
                   Str(<<"e", "r", "r", "o", "r">>)),
             Field(<<"m", "e", "s", "s", "a", "g", "e">>,
                   Str(result.message))>>)

\* the text of the buffer handed back; serde_json writes no NUL byte, so
\* CString::new succeeds
stringify(result) == to_string(FfiResponse(result))

\* mutant of run_ffi_operation: a panic unwinds through the entry point and
\* no buffer comes back
run_ffi_operation_Unwinds(inner, panics) ==
  IF panics THEN <<>> ELSE stringify(inner)

\* catch_unwind around the closure
run_ffi_operation(inner, panics) ==
  stringify(IF panics THEN Err(PanicMessage) ELSE inner)

\* Path::file_name: the text after the last "/", none for an empty one or
\* for ".."
RECURSIVE LastSlash(_, _)
LastSlash(path, i) ==
  IF i = 0 THEN 0 ELSE IF path[i] = "/" THEN i ELSE LastSlash(path, i - 1)

build_display_name(path) ==
  LET name == SubSeq(path, LastSlash(path, Len(path)) + 1, Len(path)) IN
  IF name = <<>> \/ name = <<".", ".">> THEN DefaultFileName ELSE name

\* build_tree_from_parse_result under the display name, or the error's text
TreeOrError(parsed, name) ==
  IF parsed.ok THEN Ok(build_tree_from_parse_result(parsed, name))
  ELSE Err(ErrorKindText(parsed.kind))

\* the file at a path: whether it can be read, its text, and the libraries'
\* readings of it
parse_file_at(path, f) ==
  TreeOrError(parse_file(path, f.readable, f.text, f.lib, f.pq).res,
              build_display_name(path))

\* the closure of slopjson_parse_file
ParseFileClosure(path_str, f) ==
  IF path_str.ok THEN parse_file_at(path_str.v, f) ELSE path_str

slopjson_parse_file(path_ptr, f, panics) ==
  run_ffi_operation(ParseFileClosure(cstr_to_str(path_ptr), f), panics)

\* the body of the closure of slopjson_parse_text once the content is read
ParseTextNamed(text, name, lib) ==
  TreeOrError(parse_text_content(text, lib).res,
              IF name.ok THEN name.v ELSE DefaultContentName)

\* the closure of slopjson_parse_text
ParseTextClosure(text, name, lib) ==
  IF text.ok THEN ParseTextNamed(text.v, name, lib) ELSE text

slopjson_parse_text(content_ptr, name_ptr, lib, panics) ==
  run_ffi_operation(ParseTextClosure(cstr_to_str(content_ptr),
                                     cstr_to_str(name_ptr), lib),
                    panics)

(***************************************************************************)
(* The parsers as a state machine: a text and the libraries' readings of   *)
(* it are drawn at the start, and one entry point is then called on them.  *)
(***************************************************************************)
VARIABLES
  content,   \* the text handed to a parser, or held by the file
  yamlLib,   \* serde_yaml's verdict on the text: [ok, v]
  pqLib,     \* the Parquet decoder's reading of the file's bytes
  file,      \* the file parse_file was called on: [name, readable]
  op,        \* the entry point that was called, "none" before the call
  result,    \* what the call returned
  calls,     \* the format parsers the call ran, in order
  treeInput,    \* the ParseResult handed to the tree builder
  display_name, \* the display name handed to the tree builder
  root,         \* the TreeNode the tree builder returned
  gui,          \* the window
  fnCall,       \* a function called by itself, and its arguments
  fnResult      \* what that call returned

parseVars == <<content, yamlLib, pqLib, file, result, calls>>

treeVars == <<treeInput, display_name, root>>

callVars == <<fnCall, fnResult>>

vars == <<op, parseVars, treeVars, gui, callVars>>

EmptyNode == TreeNode(<<>>, <<>>, <<>>, <<>>, <<>>, <<>>)

\* the parsers are not in use
ParseIdle ==
  /\ content = <<>>
  /\ yamlLib = [ok |-> FALSE, v |-> Null]
  /\ pqLib = [open |-> FALSE, batches |-> <<>>]
  /\ file = [name |-> <<>>, readable |-> FALSE]
  /\ result = NoResult
  /\ calls = <<>>

\* the tree builder is not in use
TreeIdle ==
  /\ treeInput = NoResult
  /\ display_name = <<>>
  /\ root = EmptyNode

\* the window is as build_ui left it
GuiIdle == gui = InitialGui

\* no function is called by itself
NoCall == [fn |-> "none"]

CallIdle == fnCall = NoCall /\ fnResult = None

\* the characters input texts are made of; "\f" is whitespace to str::trim
\* and not to serde_json
Alphabet == {"1", "[", "]", ",", " ", "\n", "\f"}

Texts == UNION {[1..n -> Alphabet] : n \in 0..MaxLen}

YamlVerdicts ==
  {[ok |-> FALSE, v |-> Null], [ok |-> TRUE, v |-> Str(<<"y">>)]}

NoParquet == [open |-> FALSE, batches |-> <<>>]

Cell(v) == [null |-> FALSE, v |-> v]

NullCell == [null |-> TRUE, v |-> Null]

BadBatch == [ok |-> FALSE, rows |-> 0, fields |-> <<>>, cols |-> <<>>]

Batch(rows, fields, cols) ==
  [ok |-> TRUE, rows |-> rows, fields |-> fields, cols |-> cols]

Table(batches) == [open |-> TRUE, batches |-> batches]

Column(name, type) == [name |-> name, type |-> type]

\* the schema of a table with a column of each supported type and a Date32
\* column, which is not supported
MixedFields ==
  <<Column(<<"s">>, "Utf8"), Column(<<"i">>, "Int64"),
    Column(<<"f">>, "Float64"), Column(<<"b">>, "Boolean"),
    Column(<<"d">>, "Date32")>>

\* a file the decoder cannot open; one whose only batch cannot be read; a
\* table of one nullable Int64 column c holding 1, null, 3; a table without
\* batches; a table without columns; a mixed table in two batches, with null
\* cells and a NaN; and that table with a second batch that cannot be read
ParquetFiles ==
  {NoParquet,
   Table(<<BadBatch>>),
   Table(<<Batch(3, <<Column(<<"c">>, "Int64")>>,
                 <<<<Cell(Num(1)), NullCell, Cell(Num(3))>>>>)>>),
   Table(<<>>),
   Table(<<Batch(2, <<>>, <<>>)>>),
   Table(<<Batch(2, MixedFields,
                 <<<<Cell(Str(<<"x">>)), NullCell>>,
                   <<Cell(Num(7)), Cell(Num(0 - 2))>>,
                   <<Cell(Num(5)), Cell(Str(<<"N", "a", "N">>))>>,
                   <<Cell(Bool(TRUE)), Cell(Bool(FALSE))>>,
                   <<Cell(Num(1)), NullCell>>>>),
           Batch(1, MixedFields,
                 <<<<Cell(Str(<<>>))>>, <<NullCell>>, <<Cell(Num(3))>>,
                   <<NullCell>>, <<Cell(Num(2))>>>>)>>),
   Table(<<Batch(1, MixedFields,
                 <<<<Cell(Str(<<"x">>))>>, <<Cell(Num(7))>>, <<Cell(Num(5))>>,
                   <<Cell(Bool(TRUE))>>, <<Cell(Num(1))>>>>),
           BadBatch>>)}

NoFile == [name |-> <<>>, readable |-> FALSE]

JsonNames ==
  {<<"a", ".", "j", "s", "o", "n">>, <<"A", ".", "J", "s", "o", "n", "L">>}

YamlNames == {<<"a", ".", "y", "a", "m", "l">>, <<"a", ".", "Y", "M", "L">>}

ParquetNames == {<<"a", ".", "P", "a", "r", "q", "u", "e", "t">>}

\* another extension, no extension, and a name that is all extension
OtherNames ==
  {<<"a", ".", "t", "x", "t">>, <<"j", "s", "o", "n">>,
   <<".", "j", "s", "o", "n">>}

FileNames == JsonNames \cup YamlNames \cup ParquetNames \cup OtherNames

ParseInit ==
  /\ content \in Texts
  /\ yamlLib \in YamlVerdicts
  /\ pqLib = NoParquet
  /\ file = NoFile
  /\ op = "none"
  /\ result = NoResult
  /\ calls = <<>>
  /\ TreeIdle
  /\ GuiIdle
  /\ CallIdle

Returned(name, ran) ==
  /\ op' = name
  /\ result' = ran.res
  /\ calls' = ran.calls

ParseJsonContent ==
  /\ op = "none"
  /\ Returned("parse_json_content", parse_json_content(content))
  /\ UNCHANGED <<content, yamlLib, pqLib, file>>
  /\ UNCHANGED <<treeVars, gui, callVars>>

ParseYamlContent ==
  /\ op = "none"
  /\ Returned("parse_yaml_content", parse_yaml_content(yamlLib))
  /\ UNCHANGED <<content, yamlLib, pqLib, file>>
  /\ UNCHANGED <<treeVars, gui, callVars>>

ParseParquetContent ==
  /\ op = "none"
  /\ \E pq \in ParquetFiles :
       /\ pqLib' = pq
       /\ Returned("parse_parquet_content", parse_parquet_content(pq))
  /\ UNCHANGED <<content, yamlLib, file>>
  /\ UNCHANGED <<treeVars, gui, callVars>>

ParseTextContent ==
  /\ op = "none"
  /\ Returned("parse_text_content", parse_text_content(content, yamlLib))
  /\ UNCHANGED <<content, yamlLib, pqLib, file>>
  /\ UNCHANGED <<treeVars, gui, callVars>>

\* a file named *.parquet holds a table; any other file holds the text
ParseFile ==
  /\ op = "none"
  /\ \E name \in FileNames, readable \in BOOLEAN :
       \E pq \in IF name \in ParquetNames THEN ParquetFiles ELSE {NoParquet} :
         /\ file' = [name |-> name, readable |-> readable]
         /\ pqLib' = pq
         /\ Returned("parse_file",
                     parse_file(name, readable, content, yamlLib, pq))
  /\ UNCHANGED <<content, yamlLib>>
  /\ UNCHANGED <<treeVars, gui, callVars>>

ParseNext ==
  \/ ParseJsonContent
  \/ ParseYamlContent
  \/ ParseParquetContent
  \/ ParseTextContent
  \/ ParseFile

SpecParse == ParseInit /\ [][ParseNext]_vars

(***************************************************************************)
(* Claims about the parsers, checked under SpecParse.                      *)
(***************************************************************************)
IsBlank(line) == \A i \in 1..Len(line) : line[i] \in UnicodeWs

NonBlankLines(text) == SelectSeq(lines(text), LAMBDA l : ~IsBlank(l))

\* the text qualifies as JSONL: more than one line, at least one of them
\* not blank, and every line that is not blank is a JSON value by itself
IsJsonl(text) ==
  /\ Len(lines(text)) > 1
  /\ NonBlankLines(text) # <<>>
  /\ \A i \in 1..Len(NonBlankLines(text)) : from_str(NonBlankLines(text)[i]).ok

\* C1: parse_json_content on a text of more than one line whose non-blank
\* lines all parse, with at least one non-blank line, returns JsonL of one
\* value per non-blank line, in line order; a JsonL it returns is never empty
C1_JsonlOfNonBlankLines ==
  op = "parse_json_content" =>
    /\ IsJsonl(content) =>
         /\ result.ok /\ result.kind = "JsonL"
         /\ Len(result.values) = Len(NonBlankLines(content))
         /\ \A i \in 1..Len(result.values) :
              result.values[i] = from_str(NonBlankLines(content)[i]).v
    /\ result.kind = "JsonL" => result.values # <<>>

\* three lines, the middle one blank, gave two values
C1_Witness ==
  /\ op = "parse_json_content"
  /\ Len(lines(content)) = 3
  /\ IsBlank(lines(content)[2])
  /\ result.kind = "JsonL"
  /\ Len(result.values) = 2

\* C2: with fewer than two lines, or a non-blank line that does not parse,
\* parse_json_content returns Single of the whole text's value, or
\* InvalidJson when the whole text does not parse; no value of an earlier
\* line is returned
C2_FallbackToSingle ==
  (/\ op = "parse_json_content"
   /\ \/ Len(lines(content)) < 2
      \/ \E i \in 1..Len(lines(content)) :
           ~IsBlank(lines(content)[i]) /\ ~from_str(lines(content)[i]).ok)
  => result = IF from_str(content).ok THEN Single(from_str(content).v)
              ELSE ParseError("InvalidJson")

\* the first line parsed, the second did not, and nothing of the first line
\* came back
C2_Witness ==
  /\ op = "parse_json_content"
  /\ Len(lines(content)) = 2
  /\ from_str(lines(content)[1]).ok
  /\ ~IsBlank(lines(content)[2]) /\ ~from_str(lines(content)[2]).ok
  /\ result = ParseError("InvalidJson")

\* C3: parse_text_content returns the JSON parser's result when that is a
\* success, and otherwise the YAML parser's result; its error is never
\* InvalidJson
C3_TextIsJsonElseYaml ==
  op = "parse_text_content" =>
    /\ result = IF parse_json_content(content).res.ok
                THEN parse_json_content(content).res
                ELSE parse_yaml_content(yamlLib).res
    /\ ~result.ok => result.kind = "InvalidYaml"

\* neither parser accepted the text
C3_Witness ==
  /\ op = "parse_text_content"
  /\ ~parse_json_content(content).res.ok
  /\ result = ParseError("InvalidYaml")

\* C4: parse_file runs the JSON parser alone for json/jsonl, the YAML
\* parser alone for yaml/yml, the Parquet parser alone for parquet, and
\* parse_text_content for anything else, whatever the case of the extension
\* and whatever the file holds
C4_DispatchOnExtension ==
  (op = "parse_file" /\ file.readable) =>
    /\ file.name \in JsonNames =>
         calls = <<"json">> /\ result = parse_json_content(content).res
    /\ file.name \in YamlNames =>
         calls = <<"yaml">> /\ result = parse_yaml_content(yamlLib).res
    /\ file.name \in ParquetNames =>
         calls = <<"parquet">> /\ result = parse_parquet_content(pqLib).res
    /\ file.name \in OtherNames =>
         /\ calls = parse_text_content(content, yamlLib).calls
         /\ calls \in {<<"json">>, <<"json", "yaml">>}
         /\ result = parse_text_content(content, yamlLib).res

\* an upper-case .JSONL file whose text is not JSON: no YAML fallback
C4_Witness ==
  /\ op = "parse_file"
  /\ file = [name |-> <<"A", ".", "J", "s", "o", "n", "L">>, readable |-> TRUE]
  /\ yamlLib.ok
  /\ result = ParseError("InvalidJson")

\* C5: when the read fails parse_file returns IoError and runs no format
\* parser; a format parser runs only after a successful read
C5_IoErrorBeforeParsing ==
  op = "parse_file" =>
    /\ ~file.readable => result = ParseError("IoError") /\ calls = <<>>
    /\ calls # <<>> => file.readable

\* an unreadable file whose text would have parsed
C5_Witness ==
  /\ op = "parse_file"
  /\ ~file.readable
  /\ file.name \in OtherNames
  /\ from_str(content).ok
  /\ result = ParseError("IoError")

(***************************************************************************)
(* The tree builder as a state machine: a ParseResult and a display name   *)
(* are drawn at the start and build_tree_from_parse_result is called on    *)
(* them.                                                                   *)
(***************************************************************************)
Leaves == {Num(1), Str(<<"s">>)}

\* object keys, one of them holding the path separator
Keys == {<<"a">>, <<"b">>, <<"a", ".", "b">>}

DisplayNames == {<<"f">>, <<"d", ".", "j">>}

\* the number of nodes of a value: itself and its descendants
RECURSIVE Size(_), SizeAll(_)
Size(v) == 1 + SizeAll(v.kids)

SizeAll(kids) == IF kids = <<>> THEN 0 ELSE Size(Head(kids).v) + SizeAll(Tail(kids))

\* the sequences of n different keys
KeySeqs(n) ==
  {ks \in [1..n -> Keys] : \A i, j \in 1..n : i # j => ks[i] # ks[j]}

\* the arrays and the objects over the sequences of values in a set
Containers(itemSeqs) ==
  {Arr(items) : items \in itemSeqs}
  \cup UNION {{Obj([i \in 1..Len(items) |-> Field(ks[i], items[i])]) :
                 ks \in KeySeqs(Len(items))} : items \in itemSeqs}

\* the values of exactly n nodes, and the sequences of values of exactly m
\* nodes in all
RECURSIVE ValuesOfSize(_), SeqsOfSize(_)
ValuesOfSize(n) ==
  IF n = 1 THEN Leaves \cup Containers({<<>>})
  ELSE Containers(SeqsOfSize(n - 1))

SeqsOfSize(m) ==
  IF m = 0 THEN {<<>>}
  ELSE UNION {{<<v>> \o rest : v \in ValuesOfSize(k),
                               rest \in SeqsOfSize(m - k)} : k \in 1..m}

\* the values of at most n nodes, and the sequences of values of at most m
\* nodes in all
ValuesUpTo(n) == UNION {ValuesOfSize(k) : k \in 1..n}

ItemSeqs(m) == UNION {SeqsOfSize(k) : k \in 0..m}

\* the parse results of at most n nodes, the JSONL root counted
TreeInputs(n) ==
  {Single(v) : v \in ValuesUpTo(n)} \cup {JsonL(vs) : vs \in ItemSeqs(n - 1)}

\* documents with the other scalars and with strings that JSON escapes: a
\* double quote, a backslash, a line feed
EscapeInputs ==
  {Single(Null), Single(Bool(TRUE)), Single(Num(0)), Single(Str(<<>>)),
   Single(Str(<<"\"">>)),
   Single(Arr(<<Str(<<"a", "\\", "\n">>), Bool(FALSE)>>)),
   Single(Obj(<<Field(<<"\"">>, Str(<<"\n", "\"">>))>>)),
   JsonL(<<Str(<<"\"", "a", "\"">>), Null>>)}

TreeInit ==
  /\ treeInput \in TreeInputs(MaxNodes) \cup EscapeInputs
  /\ display_name \in DisplayNames
  /\ root = EmptyNode
  /\ op = "none"
  /\ ParseIdle
  /\ GuiIdle
  /\ CallIdle

BuildTree ==
  /\ op = "none"
  /\ op' = "build_tree_from_parse_result"
  /\ root' = build_tree_from_parse_result(treeInput, display_name)
  /\ UNCHANGED <<treeInput, display_name>>
  /\ UNCHANGED <<parseVars, gui, callVars>>

TreeNext == BuildTree

SpecTree == TreeInit /\ [][TreeNext]_vars

(***************************************************************************)
(* Claims about the tree builder, checked under SpecTree.                  *)
(***************************************************************************)
Built == op = "build_tree_from_parse_result"

\* node is the tree of value at the given path under the given name: its
\* children are one per field or element, a field k at path.k named k and
\* the element i at path[i] named [i]
RECURSIVE Conforms(_, _, _, _)
Conforms(node, value, path, name) ==
  /\ node.path = path
  /\ node.name = name
  /\ Len(node.children) = Len(value.kids)
  /\ value.t \notin {"Array", "Object"} => node.children = <<>>
  /\ \A i \in 1..Len(value.kids) :
       IF value.t = "Object"
       THEN Conforms(node.children[i], value.kids[i].v,
                     path \o <<".">> \o value.kids[i].k, value.kids[i].k)
       ELSE Conforms(node.children[i], value.kids[i].v,
                     path \o <<"[">> \o Dec(i - 1) \o <<"]">>,
                     <<"[">> \o Dec(i - 1) \o <<"]">>)

\* C6: the tree of Single(v) has its root at "$" under the display name,
\* every object field k at parent.path + "." + k under the name k, every
\* array element i at parent.path + "[i]" under the name "[i]", as many
\* children as fields or elements, and no children under a scalar
C6_SinglePaths ==
  (Built /\ treeInput.kind = "Single") =>
    Conforms(root, treeInput.values[1], <<"$">>, display_name)

\* {"a": [v]}: the element is at $.a[0]
C6_Witness ==
  /\ Built
  /\ treeInput.kind = "Single"
  /\ Len(root.children) = 1
  /\ Len(root.children[1].children) = 1
  /\ root.children[1].children[1].path = <<"$", ".", "a", "[", "0", "]">>
  /\ root.children[1].children[1].name = <<"[", "0", "]">>

\* the paths of a tree's nodes, in pre-order
RECURSIVE AllPaths(_), AllPathsOf(_)
AllPaths(node) == <<node.path>> \o AllPathsOf(node.children)

AllPathsOf(nodes) ==
  IF nodes = <<>> THEN <<>>
  ELSE AllPaths(Head(nodes)) \o AllPathsOf(Tail(nodes))

\* C7: no two nodes of one tree have the same path, whatever the keys
C7_PathsUnique ==
  Built =>
    \A i, j \in 1..Len(AllPaths(root)) :
      i # j => AllPaths(root)[i] # AllPaths(root)[j]

\* node with the prefix from of every path replaced by to
RECURSIVE Rebase(_, _, _)
Rebase(node, from, to) ==
  [node EXCEPT
     !.path = to \o SubSeq(node.path, Len(from) + 1, Len(node.path)),
     !.children = [i \in 1..Len(node.children) |->
                     Rebase(node.children[i], from, to)]]

\* C8: the tree of JsonL(values), n values: the root is named
\* "<display_name> (JSONL)", is at display_name, previews "n objects",
\* holds {"lines":n} as full_value and has n children; child i (0-based) is
\* named "Line i+1", is at display_name[i], and is otherwise the tree of
\* Single(values[i]) with "$" replaced by display_name[i] in every path
C8_JsonlTree ==
  (Built /\ treeInput.kind = "JsonL") =>
    LET n == Len(treeInput.values) IN
    /\ root.name = display_name \o <<" ", "(", "J", "S", "O", "N", "L", ")">>
    /\ root.path = display_name
    /\ root.preview = Dec(n) \o <<" ", "o", "b", "j", "e", "c", "t", "s">>
    /\ root.full_value =
         <<"{", "\"", "l", "i", "n", "e", "s", "\"", ":">> \o Dec(n) \o <<"}">>
    /\ Len(root.children) = n
    /\ \A i \in 1..n :
         LET at == display_name \o <<"[">> \o Dec(i - 1) \o <<"]">>
             single == build_tree_from_parse_result(
                         Single(treeInput.values[i]), display_name)
         IN  /\ root.children[i].path = at
             /\ root.children[i] =
                  [Rebase(single, <<"$">>, at) EXCEPT
                     !.name = <<"L", "i", "n", "e", " ">> \o Dec(i)]

\* two lines, the second a container with a child
C8_Witness ==
  /\ Built
  /\ treeInput.kind = "JsonL"
  /\ Len(root.children) = 2
  /\ root.children[2].name = <<"L", "i", "n", "e", " ", "2">>
  /\ root.children[2].children # <<>>

(***************************************************************************)
(* The window as a state machine.  Each action is one handler of main.rs,  *)
(* run to its end; the user's input and the files and clipboard texts come *)
(* from small sets.  The widgets of the search toolbar take input only     *)
(* while the toolbar is shown, and a button only while it is sensitive.    *)
(***************************************************************************)
\* f.json holds an object with a nested array; g.json cannot be read
GuiFiles ==
  {[name |-> <<"f", ".", "j", "s", "o", "n">>, readable |-> TRUE,
    text |-> <<"{", "\"", "x", "\"", ":", "[", "\"", "a", "\"", ",", "\"",
              "A", "b", "\"", "]", ",", "\"", "a", "\"", ":",
              "\"", "a", "a", "\"", "}">>],
   [name |-> <<"g", ".", "j", "s", "o", "n">>, readable |-> FALSE, text |-> <<>>]}

\* a JSONL document of two lines, and a text that is neither JSON nor YAML
ClipboardTexts ==
  {<<"\"", "a", "\"", "\n", "\"", "A", "a", "\"">>,
   <<"[">>}

SearchTexts == {<<"a">>, <<"A">>}

\* the tree paths of the rows of the store
RECURSIVE RowPaths(_, _)
RowPaths(rows, parent) ==
  UNION {{Append(parent, i - 1)}
           \cup RowPaths(rows[i].children, Append(parent, i - 1)) :
         i \in 1..Len(rows)}

GuiInit ==
  /\ gui = InitialGui
  /\ op = "none"
  /\ ParseIdle
  /\ TreeIdle
  /\ CallIdle

Handled(name, g) ==
  /\ op' = name
  /\ gui' = g
  /\ UNCHANGED <<parseVars, treeVars, callVars>>

load_json_content_from_file(g, f) ==
  load_parse_result(g,
                    parse_file(f.name, f.readable, f.text,
                               [ok |-> FALSE, v |-> Null], NoParquet).res,
                    f.name, FileErrorPrefix)

load_json_content(g, text) ==
  load_parse_result(g,
                    parse_text_content(text, [ok |-> FALSE, v |-> Null]).res,
                    ClipboardName, ContentErrorPrefix)

\* File > Open, with the file the user chose; the store holds at most
\* MaxRoots roots
OpenFile ==
  \E f \in GuiFiles :
    /\ Handled("open_menu_item", load_json_content_from_file(gui, f))
    /\ Len(gui'.tree_store) <= MaxRoots

\* Edit > Paste with text on the clipboard
PasteText ==
  \E text \in ClipboardTexts :
    /\ Handled("paste_menu_item", load_json_content(gui, text))
    /\ Len(gui'.tree_store) <= MaxRoots

\* Edit > Paste with no text on the clipboard
PasteNothing ==
  /\ op' = "paste_menu_item_no_text"
  /\ gui' = set_text(gui, ClipboardEmptyText)
  /\ UNCHANGED <<parseVars, treeVars, callVars>>

\* the user selects a row, or unselects the selected one
SelectRow ==
  \E path \in RowPaths(gui.tree_store, <<>>) :
    /\ gui.selection # Some(path)
    /\ Handled("selection", select_path(gui, path))

UnselectRow ==
  /\ gui.selection.some
  /\ Handled("selection_none", unselect_all(gui))

\* Edit > Remove File, or the Delete key
RemoveFile ==
  /\ gui.remove_file_menu_item
  /\ \E moves \in BOOLEAN :
       Handled("remove_file_menu_item", remove_root_node(gui, moves))

\* a right click on a root row, then Remove File in the menu that pops up
ContextRemoveFile ==
  \E r \in 0..(Len(gui.tree_store) - 1), moves \in BOOLEAN :
    Handled("remove_item", remove_root_node(select_path(gui, <<r>>), moves))

FindMenuItem ==
  /\ op' = "find_menu_item"
  /\ gui' = find_menu_item_activate(gui)
  /\ UNCHANGED <<parseVars, treeVars, callVars>>

\* the user changes the text of the search entry
SearchEntryChanged ==
  /\ gui.search_toolbar
  /\ \E text \in SearchTexts \cup {<<>>} :
       /\ text # gui.search_entry
       /\ Handled("search_entry_changed", entry_set_text(gui, text))

CaseSensitiveToggled ==
  /\ gui.search_toolbar
  /\ Handled("case_sensitive_toggled",
             case_sensitive_toggled(
               [gui EXCEPT !.case_sensitive_check = ~@]))

PrevButton ==
  /\ gui.search_toolbar
  /\ gui.prev_button
  /\ Handled("prev_button", prev_button_clicked(gui))

NextButton ==
  /\ gui.search_toolbar
  /\ gui.next_button
  /\ Handled("next_button", next_button_clicked(gui))

SearchEntryActivate ==
  /\ gui.search_toolbar
  /\ Handled("search_entry_activate", search_entry_activate(gui))

CloseSearchButton ==
  /\ gui.search_toolbar
  /\ Handled("close_search_button", close_search_button_clicked(gui))

GuiNext ==
  \/ OpenFile
  \/ PasteText
  \/ PasteNothing
  \/ SelectRow
  \/ UnselectRow
  \/ RemoveFile
  \/ ContextRemoveFile
  \/ FindMenuItem
  \/ SearchEntryChanged
  \/ CaseSensitiveToggled
  \/ PrevButton
  \/ NextButton
  \/ SearchEntryActivate
  \/ CloseSearchButton

Spec == GuiInit /\ [][GuiNext]_vars

(***************************************************************************)
(* The search, under Spec.                                                 *)
(***************************************************************************)
\* the step moved the current index to `to` over an unchanged match list,
\* or left both alone when the list was empty
MovedTo(to) ==
  /\ gui'.search_matches = gui.search_matches
  /\ IF gui.search_matches = <<>>
     THEN gui'.search_current_index = gui.search_current_index
     ELSE gui.search_current_index.some =>
            gui'.search_current_index = Some(to)

\* C9: over a non-empty match list of length n with current index i, Next
\* (the button, or Enter in the search entry) sets the index to i+1, or to
\* 0 when i = n-1; Previous sets it to i-1, or to n-1 when i = 0; over an
\* empty match list both leave the match list and the index unchanged.
C9_NavigationWraps ==
  [][/\ op' \in {"next_button", "search_entry_activate"} =>
          MovedTo(IF gui.search_current_index.v = Len(gui.search_matches) - 1
                  THEN 0 ELSE gui.search_current_index.v + 1)
     /\ op' = "prev_button" =>
          MovedTo(IF gui.search_current_index.v = 0
                  THEN Len(gui.search_matches) - 1
                  ELSE gui.search_current_index.v - 1)]_vars

\* Next has wrapped from the last of three matches to the first
C9_Witness ==
  /\ op = "next_button"
  /\ Len(gui.search_matches) = 3
  /\ gui.search_current_index = Some(0)

\* index sequences of equal length, compared element by element
SeqLeq(a, b) ==
  \/ a = b
  \/ \E k \in 1..Len(a) :
       /\ a[k] < b[k]
       /\ \A j \in 1..(k - 1) : a[j] = b[j]

\* a match path is >= the selected path: deeper, or as deep and not before
PathGeq(match_path, selected) ==
  \/ Len(match_path) > Len(selected)
  \/ Len(match_path) = Len(selected) /\ SeqLeq(selected, match_path)

ExpectedStart(selected, matches) ==
  IF matches = <<>> THEN None
  ELSE IF /\ selected.some
          /\ \E i \in 1..Len(matches) : PathGeq(matches[i].path, selected.v)
  THEN Some(CHOOSE n \in 0..(Len(matches) - 1) :
              /\ PathGeq(matches[n + 1].path, selected.v)
              /\ \A i \in 1..n : ~PathGeq(matches[i].path, selected.v))
  ELSE Some(0)

\* the step ran a search: the text of the search entry changed to a
\* non-empty text, or the check button was toggled over a non-empty text
SearchRan ==
  \/ op' = "search_entry_changed" /\ gui'.search_entry # <<>>
  \/ op' = "case_sensitive_toggled" /\ gui.search_entry # <<>>

\* C10: re-running a search (the query or the case sensitivity changes, the
\* query non-empty) computes the match list anew, every entry on a leaf row
\* of the store, and sets the current index: None if the list is empty;
\* else, with a row selected, the index of the first match whose path is >=
\* the selected path, by depth first and at equal depth by index sequence,
\* or 0 if no match is; 0 with nothing selected.
C10_StartingIndex ==
  [][SearchRan =>
       /\ \A i \in 1..Len(gui'.search_matches) :
            /\ HasRow(gui.tree_store, gui'.search_matches[i].path)
            /\ RowAt(gui.tree_store, gui'.search_matches[i].path).children
                 = <<>>
       /\ gui'.search_current_index
            = ExpectedStart(gui.selection, gui'.search_matches)]_vars

\* a search started past the first match, at the selected row
C10_Witness ==
  /\ op = "search_entry_changed"
  /\ gui.search_entry # <<>>
  /\ gui.search_current_index.some
  /\ gui.search_current_index.v > 0
  /\ gui.selection = Some(gui.search_matches[gui.search_current_index.v + 1].path)

\* C12: when the search query becomes empty, typed empty or cleared by the
\* Close button, the match list becomes empty and the current index None,
\* whatever the search state was.
C12_EmptyQueryClears ==
  [][(/\ op' \in {"search_entry_changed", "close_search_button"}
      /\ gui'.search_entry = <<>>)
     => /\ gui'.search_matches = <<>>
        /\ gui'.search_current_index = None]_vars

\* Close has cleared a search whose highlighted match is still in the pane
C12_Witness ==
  /\ op = "close_search_button"
  /\ gui.search_entry = <<>>
  /\ gui.current_search_text # <<>>
  /\ gui.highlight.some
  /\ gui.search_matches = <<>>
  /\ gui.search_current_index = None

\* text starts with prefix
StartsWith(text, prefix) ==
  /\ Len(text) >= Len(prefix)
  /\ SubSeq(text, 1, Len(prefix)) = prefix

\* the step was a load that failed: it wrote to the value pane, which a
\* load that succeeds never does, or it changed no root
LoadFailed ==
  /\ op' \in {"open_menu_item", "paste_menu_item"}
  /\ \/ gui'.value_text_buffer # gui.value_text_buffer
     \/ gui'.tree_store = gui.tree_store

\* C15: a failed load, of a file or of pasted text, adds no root and no
\* partial tree, and leaves the existing roots, the match list and the
\* current search index unchanged; only the text of the value pane is
\* replaced, by the error message.
C15_FailedLoadFrame ==
  [][LoadFailed =>
       /\ gui'.tree_store = gui.tree_store
       /\ gui'.search_matches = gui.search_matches
       /\ gui'.search_current_index = gui.search_current_index
       /\ gui' = [gui EXCEPT !.value_text_buffer = gui'.value_text_buffer,
                             !.highlight = None]
       /\ \/ StartsWith(gui'.value_text_buffer,
                        <<"E", "r", "r", "o", "r", " ", "p", "a", "r", "s",
                          "i", "n", "g", " ", "f", "i", "l", "e", ":", " ">>)
          \/ StartsWith(gui'.value_text_buffer,
                        <<"E", "r", "r", "o", "r", " ", "p", "a", "r", "s",
                          "i", "n", "g", " ", "c", "o", "n", "t", "e", "n",
                          "t", ":", " ">>)]_vars

\* a file that cannot be read was opened over a root and an active search
C15_Witness ==
  /\ op = "open_menu_item"
  /\ StartsWith(gui.value_text_buffer,
                <<"E", "r", "r", "o", "r", " ", "p", "a", "r", "s", "i", "n",
                  "g", " ", "f", "i", "l", "e", ":", " ", "I", "/", "O">>)
  /\ gui.tree_store # <<>>
  /\ gui.search_matches # <<>>
  /\ gui.search_current_index.some

\* the step added or removed a root
RootsChanged ==
  /\ op' \in {"open_menu_item", "paste_menu_item", "remove_file_menu_item",
              "remove_item"}
  /\ gui'.tree_store # gui.tree_store

\* C21: the match list and the current index are invalidated whenever the
\* tree's structure changes: after a root is added (a file opened, text
\* pasted) or removed, the search state holds no matches computed against
\* the previous tree: it is empty, or it is the list of the new tree.
C21_StructureChangeInvalidates ==
  [][RootsChanged =>
       \/ /\ gui'.search_matches = <<>>
          /\ gui'.search_current_index = None
       \/ gui'.search_matches
            = SearchRows(gui'.tree_store, <<>>, 1, gui'.current_search_text,
                         gui'.current_case_sensitive)]_vars

(***************************************************************************)
(* The window started with files named on the command line: build_ui loads *)
(* each file that exists, in order, and no document is opened or pasted    *)
(* afterwards.                                                             *)
(***************************************************************************)
\* f.json, g.json, h.json holding an array of one string, and a file that
\* does not exist
ArgFiles ==
  {[exists |-> TRUE, file |-> f] : f \in GuiFiles}
  \cup {[exists |-> TRUE,
         file |-> [name |-> <<"h", ".", "j", "s", "o", "n">>,
                   readable |-> TRUE,
                   text |-> <<"[", "\"", "a", "\"", "]">>]],
        [exists |-> FALSE,
         file |-> [name |-> <<"n", ".", "j", "s", "o", "n">>,
                   readable |-> FALSE, text |-> <<>>]]}

\* the loop build_ui ends with
RECURSIVE build_ui(_, _)
build_ui(g, initial_files) ==
  IF initial_files = <<>> THEN g
  ELSE IF Head(initial_files).exists
  THEN build_ui(load_json_content_from_file(g, Head(initial_files).file),
                Tail(initial_files))
  ELSE build_ui(g, Tail(initial_files))

ArgsInit ==
  /\ \E initial_files \in UNION {[1..n -> ArgFiles] : n \in 0..MaxArgs} :
       gui = build_ui(InitialGui, initial_files)
  /\ op = "none"
  /\ ParseIdle
  /\ TreeIdle
  /\ CallIdle

ArgsNext ==
  \/ SelectRow
  \/ UnselectRow
  \/ RemoveFile
  \/ ContextRemoveFile
  \/ FindMenuItem
  \/ SearchEntryChanged
  \/ CaseSensitiveToggled
  \/ PrevButton
  \/ NextButton
  \/ SearchEntryActivate
  \/ CloseSearchButton

SpecArgs == ArgsInit /\ [][ArgsNext]_vars

(***************************************************************************)
(* The match list over several roots, under SpecArgs.                      *)
(***************************************************************************)
\* the tree paths of the rows without children
LeafRows(store) ==
  {p \in RowPaths(store, <<>>) : RowAt(store, p).children = <<>>}

\* row p is visited before row q in a depth-first walk, neither being an
\* ancestor of the other
Precedes(p, q) ==
  \E k \in 1..Len(p) :
    /\ k <= Len(q)
    /\ p[k] < q[k]
    /\ \A j \in 1..(k - 1) : p[j] = q[j]

Fold(s, case_sensitive) == IF case_sensitive THEN s ELSE to_lowercase(s)

\* the most occurrences of needle in hay no two of which overlap
NonOverlapping(hay, needle) ==
  LET places == {i \in 1..(Len(hay) - Len(needle) + 1) :
                   SubSeq(hay, i, i + Len(needle) - 1) = needle}
      Apart(S) == \A i, j \in S : i < j => j - i >= Len(needle)
      sizes == {Cardinality(S) : S \in {T \in SUBSET places : Apart(T)}}
  IN  CHOOSE n \in sizes : \A k \in sizes : k <= n

\* the number of key entries, or of value entries, of the list on row p
EntriesAt(matches, p, is_key_match) ==
  Cardinality({i \in 1..Len(matches) :
                 /\ matches[i].path = p
                 /\ matches[i].is_key_match = is_key_match})

\* the list is the one a search for query over the store gives
ListsLeaves(matches, store, query, case_sensitive) ==
  /\ \A i \in 1..Len(matches) : matches[i].path \in LeafRows(store)
  /\ \A i, j \in 1..Len(matches) :
       i < j =>
         \/ Precedes(matches[i].path, matches[j].path)
         \/ /\ matches[i].path = matches[j].path
            /\ matches[j].is_key_match => matches[i].is_key_match
  /\ \A p \in LeafRows(store) :
       /\ EntriesAt(matches, p, TRUE)
            = NonOverlapping(Fold(RowAt(store, p).name, case_sensitive),
                             Fold(query, case_sensitive))
       /\ EntriesAt(matches, p, FALSE)
            = NonOverlapping(
                Fold(format_value_from_string(RowAt(store, p).full_value,
                                              RowAt(store, p).preview),
                     case_sensitive),
                Fold(query, case_sensitive))

\* C11: the match list a search produces lists leaves in depth-first
\* pre-order over all roots; the key matches of a leaf come before its value
\* matches; a leaf has one entry per non-overlapping occurrence of the query
\* in its name and one per non-overlapping occurrence in its rendered value.
C11_MatchOrder ==
  [][SearchRan =>
       ListsLeaves(gui'.search_matches, gui.tree_store, gui'.search_entry,
                   gui'.case_sensitive_check)]_vars

\* a search over two roots found matches under both, and on one leaf a key
\* match followed by two value matches
C11_Witness ==
  /\ op \in {"search_entry_changed", "case_sensitive_toggled"}
  /\ gui.search_entry # <<>>
  /\ Len(gui.tree_store) = 2
  /\ \E i, j \in 1..Len(gui.search_matches) :
       /\ gui.search_matches[i].path[1] = 0
       /\ gui.search_matches[j].path[1] = 1
  /\ \E i \in 1..(Len(gui.search_matches) - 2) :
       /\ gui.search_matches[i].is_key_match
       /\ ~gui.search_matches[i + 1].is_key_match
       /\ ~gui.search_matches[i + 2].is_key_match
       /\ gui.search_matches[i + 1].path = gui.search_matches[i].path
       /\ gui.search_matches[i + 2].path = gui.search_matches[i].path

\* the tree path of a row of another root once root r is gone
Shifted(path, r) ==
  IF path[1] > r THEN <<path[1] - 1>> \o Tail(path) ELSE path

\* C14: with several roots loaded and a search active, removing one root
\* leaves every other root's rows and paths as they were, and every entry of
\* the match list that belonged to another root refers to the same leaf
\* after the removal as before it.
C14_RemovalKeepsOthers ==
  [][(/\ op' \in {"remove_file_menu_item", "remove_item"}
      /\ Len(gui'.tree_store) < Len(gui.tree_store))
     => \E r \in 0..(Len(gui.tree_store) - 1) :
          /\ gui'.tree_store = RemoveAt(gui.tree_store, r)
          /\ \A i \in 1..Len(gui.search_matches) :
               gui.search_matches[i].path[1] # r =>
                 /\ i <= Len(gui'.search_matches)
                 /\ gui'.search_matches[i].path
                      = Shifted(gui.search_matches[i].path, r)]_vars

\* a row is at or after the selected row in document order: the selected
\* row itself, a row under it, or a row a depth-first walk visits later
DocGeq(match_path, selected) ==
  \/ /\ Len(selected) <= Len(match_path)
     /\ SubSeq(match_path, 1, Len(selected)) = selected
  \/ Precedes(selected, match_path)

\* the step ran a search with a row selected and found matches
SearchRanFrom ==
  /\ SearchRan
  /\ gui.selection.some
  /\ gui'.search_matches # <<>>

\* C22 as stated: a search run while a row is selected starts at the first
\* match at or after the selection in document (depth-first pre-) order,
\* and at index 0 only when no match lies at or after the selection.
C22_DocumentOrderStart ==
  [][SearchRanFrom =>
       LET hits == {i \in 1..Len(gui'.search_matches) :
                      DocGeq(gui'.search_matches[i].path, gui.selection.v)}
       IN  gui'.search_current_index
             = Some(IF hits = {} THEN 0
                    ELSE (CHOOSE i \in hits : \A j \in hits : i <= j) - 1)]_vars

\* C22, amended: a search run while a row is selected starts at the first
\* match that is deeper in the tree than the selected row or, at the same
\* depth, at or after it by index sequence; index 0 is used when the first
\* match is such a match, and when no match is.
C22_DepthFirstStart ==
  [][SearchRanFrom =>
       /\ gui'.search_current_index.some
       /\ gui'.search_current_index.v < Len(gui'.search_matches)
       /\ \A i \in 1..gui'.search_current_index.v :
            ~PathGeq(gui'.search_matches[i].path, gui.selection.v)
       /\ \/ PathGeq(
               gui'.search_matches[gui'.search_current_index.v + 1].path,
               gui.selection.v)
          \/ /\ gui'.search_current_index.v = 0
             /\ \A i \in 1..Len(gui'.search_matches) :
                  ~PathGeq(gui'.search_matches[i].path, gui.selection.v)]_vars

\* with the leaf 0:1 selected the search started at a deeper leaf that
\* comes before it in the document, although 0:1 has matches of its own
C22_Witness ==
  /\ op = "search_entry_changed"
  /\ gui.search_entry # <<>>
  /\ gui.search_current_index = Some(0)
  /\ gui.search_matches # <<>>
  /\ gui.search_matches[1].path = <<0, 0, 0>>
  /\ \E i \in 1..Len(gui.search_matches) :
       gui.search_matches[i].path = <<0, 1>>
  /\ gui.path_entry = RowAt(gui.tree_store, <<0, 0, 0>>).path

(***************************************************************************)
(* Functions called by themselves: the arguments are drawn at the start    *)
(* and the function is then applied to them.                               *)
(***************************************************************************)
\* a match list: `before` value matches on row 0, then the key matches and
\* the value matches of row 1
MatchList(before, keys, values) ==
  [i \in 1..before |-> SearchMatch(<<0>>, FALSE)]
  \o [i \in 1..keys |-> SearchMatch(<<1>>, TRUE)]
  \o [i \in 1..values |-> SearchMatch(<<1>>, FALSE)]

\* the rendered texts of at most n characters
HighlightTexts(n) == UNION {[1..k -> {"a", "A"}] : k \in 0..n}

\* find_occurrence_to_highlight on the matches of row `path` and any global
\* index, and navigate_to_match from set_text on, for a match of the list
HighlightCall(c, n) ==
  \E b \in 0..1, k \in 0..n, v \in 0..n :
    \E f \in {"find_occurrence_to_highlight", "navigate_to_match"},
       i \in 0..(b + k + v),
       p \in {<<0>>, <<1>>},
       t \in HighlightTexts(n + 1),
       q \in {<<"a">>, <<"a", "a">>},
       cs \in BOOLEAN :
      c = [fn |-> f, matches |-> MatchList(b, k, v), path |-> p, idx |-> i,
           text |-> t, query |-> q, case_sensitive |-> cs]

\* the spec's example: the row of {"name":"test"} at $.name, searched for
\* TEST whatever the case, and the first match of that search shown
ExampleRow ==
  add_single_value_to_tree(
    Obj(<<Field(<<"n", "a", "m", "e">>, Str(<<"t", "e", "s", "t">>))>>),
    <<"f">>).children[1]

ExampleCall ==
  [fn |-> "navigate_to_match",
   matches |-> search_tree(ExampleRow, <<0, 0>>, <<"T", "E", "S", "T">>, FALSE),
   path |-> <<0, 0>>, idx |-> 0,
   text |-> format_value_from_string(ExampleRow.full_value,
                                     ExampleRow.preview),
   query |-> <<"T", "E", "S", "T">>, case_sensitive |-> FALSE]

\* the root row load_parse_result adds for a parse result
RootRow(res, name) ==
  IF res.kind = "JsonL" THEN add_jsonl_to_tree(res.values, name, name)
  ELSE add_single_value_to_tree(res.values[1], name)

\* search_tree on the root row of a document of at most n nodes, named a
SearchCall(c, n) ==
  \E res \in TreeInputs(n), q \in {<<"a">>, <<"1">>}, cs \in BOOLEAN :
    c = [fn |-> "search_tree", row |-> RootRow(res, <<"a">>),
         query |-> q, case_sensitive |-> cs]

\* navigate_to_match shows a match the list holds
CanShow(c) ==
  c.fn = "navigate_to_match" =>
    /\ c.idx < Len(c.matches)
    /\ c.path = c.matches[c.idx + 1].path

\* the files slopjson_parse_file is pointed at: an array, a text that is
\* neither JSON nor YAML in a directory, a file that cannot be read, and a
\* YAML file
FfiFiles ==
  {[path |-> <<"a", ".", "j", "s", "o", "n">>, readable |-> TRUE,
    text |-> <<"[", "1", "]">>, lib |-> [ok |-> FALSE, v |-> Null],
    pq |-> NoParquet],
   [path |-> <<"d", "/", "b", ".", "t", "x", "t">>, readable |-> TRUE,
    text |-> <<"[">>, lib |-> [ok |-> FALSE, v |-> Null], pq |-> NoParquet],
   [path |-> <<"c", ".", "j", "s", "o", "n">>, readable |-> FALSE,
    text |-> <<>>, lib |-> [ok |-> FALSE, v |-> Null], pq |-> NoParquet],
   [path |-> <<"e", ".", "y", "m", "l">>, readable |-> TRUE,
    text |-> <<"y">>, lib |-> [ok |-> TRUE, v |-> Str(<<"y">>)],
    pq |-> NoParquet]}

\* a number, two lines of JSON, and a text that is not JSON
FfiTexts == {<<"1">>, <<"\"", "a", "\"", "\n", "1">>, <<"[">>}

FfiCalls ==
  {[fn |-> "slopjson_parse_file", path_ptr |-> p, f |-> f, panics |-> b] :
     p \in {NullPtr, NotUtf8}, f \in FfiFiles, b \in BOOLEAN}
  \cup {[fn |-> "slopjson_parse_file", path_ptr |-> CStrOf(f.path),
          f |-> f, panics |-> b] : f \in FfiFiles, b \in BOOLEAN}
  \cup {[fn |-> "slopjson_parse_text", content_ptr |-> c, name_ptr |-> n,
          lib |-> y, panics |-> b] :
           c \in {NullPtr, NotUtf8} \cup {CStrOf(t) : t \in FfiTexts},
           n \in {NullPtr, NotUtf8, CStrOf(<<"n">>)},
           y \in YamlVerdicts, b \in BOOLEAN}

\* the strings of at most n characters: all letters, ending in three dots,
\* and opening with a double quote
PreviewStrings(n) ==
  UNION {{[i \in 1..k |-> "a"],
          [i \in 1..k |-> IF i > k - 3 THEN "." ELSE "a"],
          [i \in 1..k |-> IF i = 1 THEN "\"" ELSE "a"]} : k \in 0..n}

PreviewCalls(n) ==
  {[fn |-> "format_value_preview", value |-> v] :
     v \in {Str(t) : t \in PreviewStrings(n)}
            \cup {Null, Bool(TRUE), Bool(FALSE), Num(42),
                  Arr(<<Num(1), Num(2)>>), Obj(<<Field(<<"a">>, Null)>>)}}

\* the stored texts: every text of the parsers' alphabet, a JSON string with
\* an escape, an object, and a word that is not JSON
FromStringCalls ==
  {[fn |-> "format_value_from_string", full_value |-> t,
    preview_fallback |-> p] :
     t \in Texts \cup {<<"\"", "a", "\\", "n", "b", "\"">>,
                       <<"{", "\"", "a", "\"", ":", "1", "}">>,
                       <<"x">>},
     p \in {<<>>, <<"f", "b">>}}

CallsInit ==
  /\ \/ HighlightCall(fnCall, MaxOcc) /\ CanShow(fnCall)
     \/ fnCall \in FfiCalls
     \/ fnCall \in PreviewCalls(MaxChars)
     \/ fnCall \in FromStringCalls
     \/ fnCall = ExampleCall
     \/ SearchCall(fnCall, MaxNodes - 1)
  /\ fnResult = None
  /\ op = "none"
  /\ ParseIdle
  /\ TreeIdle
  /\ GuiIdle

FindOccurrenceToHighlight ==
  /\ op = "none"
  /\ fnCall.fn = "find_occurrence_to_highlight"
  /\ op' = "find_occurrence_to_highlight"
  /\ fnResult' = find_occurrence_to_highlight(
                   PathMatches(fnCall.matches, fnCall.path), fnCall.idx,
                   fnCall.text, fnCall.query, fnCall.case_sensitive)
  /\ UNCHANGED <<fnCall, parseVars, treeVars, gui>>

\* the range navigate_to_match leaves tagged in the value pane
NavigateToMatch ==
  /\ op = "none"
  /\ fnCall.fn = "navigate_to_match"
  /\ op' = "navigate_to_match"
  /\ fnResult' = ShowValue(InitialGui, fnCall.matches, fnCall.idx,
                           fnCall.text, fnCall.query,
                           fnCall.case_sensitive).highlight
  /\ UNCHANGED <<fnCall, parseVars, treeVars, gui>>

SlopjsonParseFile ==
  /\ op = "none"
  /\ fnCall.fn = "slopjson_parse_file"
  /\ op' = "slopjson_parse_file"
  /\ fnResult' = slopjson_parse_file(fnCall.path_ptr, fnCall.f, fnCall.panics)
  /\ UNCHANGED <<fnCall, parseVars, treeVars, gui>>

SlopjsonParseText ==
  /\ op = "none"
  /\ fnCall.fn = "slopjson_parse_text"
  /\ op' = "slopjson_parse_text"
  /\ fnResult' = slopjson_parse_text(fnCall.content_ptr, fnCall.name_ptr,
                                     fnCall.lib, fnCall.panics)
  /\ UNCHANGED <<fnCall, parseVars, treeVars, gui>>

FormatValuePreview ==
  /\ op = "none"
  /\ fnCall.fn = "format_value_preview"
  /\ op' = "format_value_preview"
  /\ fnResult' = format_value_preview(fnCall.value)
  /\ UNCHANGED <<fnCall, parseVars, treeVars, gui>>

FormatValueFromString ==
  /\ op = "none"
  /\ fnCall.fn = "format_value_from_string"
  /\ op' = "format_value_from_string"
  /\ fnResult' = format_value_from_string(fnCall.full_value,
                                          fnCall.preview_fallback)
  /\ UNCHANGED <<fnCall, parseVars, treeVars, gui>>

\* search_tree on a root row, as the loop over the roots calls it
SearchTree ==
  /\ op = "none"
  /\ fnCall.fn = "search_tree"
  /\ op' = "search_tree"
  /\ fnResult' = search_tree(fnCall.row, <<0>>, fnCall.query,
                             fnCall.case_sensitive)
  /\ UNCHANGED <<fnCall, parseVars, treeVars, gui>>

CallsNext ==
  \/ FindOccurrenceToHighlight
  \/ NavigateToMatch
  \/ SearchTree
  \/ FormatValuePreview
  \/ FormatValueFromString
  \/ SlopjsonParseFile
  \/ SlopjsonParseText

SpecCalls == CallsInit /\ [][CallsNext]_vars

(***************************************************************************)
(* Claims about the functions, checked under SpecCalls.                    *)
(***************************************************************************)
\* the place of global index idx among a leaf's matches, 0 if it is not
\* among them
PlaceOf(path_matches, idx) ==
  IF \E i \in 1..Len(path_matches) : path_matches[i][1] = idx
  THEN CHOOSE i \in 1..Len(path_matches) : path_matches[i][1] = idx
  ELSE 0

ValuesBefore(path_matches, i) ==
  Cardinality({j \in 1..(i - 1) : ~path_matches[j][2]})

\* C13: find_occurrence_to_highlight returns None when global_index is not
\* among the supplied per-path matches, and None when the rendered text
\* holds fewer occurrences than the match's place among the value matches
\* requires; no range is returned, and none applied by navigate_to_match,
\* for a key match.
C13_NoHighlightRange ==
  /\ op = "find_occurrence_to_highlight" =>
       LET pm == PathMatches(fnCall.matches, fnCall.path)
           i == PlaceOf(pm, fnCall.idx)
           found == NonOverlapping(Fold(fnCall.text, fnCall.case_sensitive),
                                   Fold(fnCall.query, fnCall.case_sensitive))
       IN  /\ i = 0 => fnResult = None
           /\ (i > 0 /\ pm[i][2]) => fnResult = None
           /\ (i > 0 /\ found <= ValuesBefore(pm, i)) => fnResult = None
  /\ op = "navigate_to_match" =>
       (fnCall.matches[fnCall.idx + 1].is_key_match => fnResult = None)

\* the second value match of a leaf whose text now holds one occurrence
C13_Witness ==
  /\ op = "find_occurrence_to_highlight"
  /\ fnCall.matches = MatchList(1, 1, 2)
  /\ fnCall.path = <<1>>
  /\ fnCall.idx = 3
  /\ fnCall.text = <<"A", "a">>
  /\ fnCall.query = <<"a">>
  /\ fnCall.case_sensitive
  /\ fnResult = None

\* the value of field k of an object, and whether it has one
HasField(object, k) == \E i \in 1..Len(object.kids) : object.kids[i].k = k

FieldOf(object, k) ==
  object.kids[CHOOSE i \in 1..Len(object.kids) : object.kids[i].k = k].v

FfiCalled == op \in {"slopjson_parse_file", "slopjson_parse_text"}

\* the buffer holds an object tagged "ok" with a root object and nothing
\* else, or tagged "error" with a message text and nothing else
IsEnvelope(buffer) ==
  LET env == from_str(buffer) IN
  /\ env.ok
  /\ env.v.t = "Object"
  /\ Len(env.v.kids) = 2
  /\ HasField(env.v, <<"s", "t", "a", "t", "u", "s">>)
  /\ \/ /\ FieldOf(env.v, <<"s", "t", "a", "t", "u", "s">>) = Str(<<"o", "k">>)
        /\ HasField(env.v, <<"r", "o", "o", "t">>)
        /\ FieldOf(env.v, <<"r", "o", "o", "t">>).t = "Object"
     \/ /\ FieldOf(env.v, <<"s", "t", "a", "t", "u", "s">>)
             = Str(<<"e", "r", "r", "o", "r">>)
        /\ HasField(env.v, <<"m", "e", "s", "s", "a", "g", "e">>)
        /\ FieldOf(env.v, <<"m", "e", "s", "s", "a", "g", "e">>).t = "String"

StatusOk(buffer) ==
  FieldOf(from_str(buffer).v, <<"s", "t", "a", "t", "u", "s">>)
    = Str(<<"o", "k">>)

\* the pointer to the path or to the content is a text, and parsing the file
\* or the content succeeds
MainPointer ==
  IF op = "slopjson_parse_file" THEN fnCall.path_ptr ELSE fnCall.content_ptr

ParsingSucceeds ==
  /\ MainPointer.ptr = "text"
  /\ IF op = "slopjson_parse_file"
     THEN parse_file(fnCall.f.path, fnCall.f.readable, fnCall.f.text,
                     fnCall.f.lib, fnCall.f.pq).res.ok
     ELSE parse_text_content(fnCall.content_ptr.text, fnCall.lib).res.ok

\* every pointer handed over is a text
AllPointersValid ==
  /\ MainPointer.ptr = "text"
  /\ op = "slopjson_parse_text" => fnCall.name_ptr.ptr = "text"

\* C16 as stated: every call returns an envelope, "ok" with a root or
\* "error" with a message, and the status is "ok" exactly when the inputs
\* were valid, parsing succeeded and no panic occurred: a panic, a parse
\* error, a null pointer or non-UTF-8 content yields the error envelope.
C16_AnyNullPointerFails ==
  FfiCalled =>
    /\ IsEnvelope(fnResult)
    /\ StatusOk(fnResult)
         <=> (AllPointersValid /\ ParsingSucceeds /\ ~fnCall.panics)

\* C16, amended: every call returns an envelope, "ok" with a root or "error"
\* with a message; the status is "ok" exactly when the path or content
\* pointer is a UTF-8 text, parsing succeeded and no panic occurred.  A name
\* pointer that is null or not UTF-8 does not fail slopjson_parse_text: the
\* root is then named "Content".
C16_Envelope ==
  FfiCalled =>
    /\ IsEnvelope(fnResult)
    /\ StatusOk(fnResult) <=> (ParsingSucceeds /\ ~fnCall.panics)
    /\ (/\ op = "slopjson_parse_text"
        /\ StatusOk(fnResult)
        /\ fnCall.name_ptr.ptr # "text"
        /\ from_str(fnCall.content_ptr.text).ok)
       => FieldOf(FieldOf(from_str(fnResult).v, <<"r", "o", "o", "t">>),
                  <<"n", "a", "m", "e">>)
            = Str(<<"C", "o", "n", "t", "e", "n", "t">>)

\* a text handed over with a null name pointer came back as the tree of a
\* root named "Content"
C16_Witness ==
  /\ op = "slopjson_parse_text"
  /\ fnCall.name_ptr = NullPtr
  /\ fnCall.content_ptr = CStrOf(<<"1">>)
  /\ ~fnCall.panics
  /\ IsEnvelope(fnResult)
  /\ StatusOk(fnResult)
  /\ FieldOf(FieldOf(from_str(fnResult).v, <<"r", "o", "o", "t">>),
             <<"n", "a", "m", "e">>)
       = Str(<<"C", "o", "n", "t", "e", "n", "t">>)

EndsWith(text, suffix) ==
  /\ Len(text) >= Len(suffix)
  /\ SubSeq(text, Len(text) - Len(suffix) + 1, Len(text)) = suffix

\* C17: format_value_preview on a string of n characters: for n <= 50 the
\* whole string between double quotes, not ending in "..."; for n > 50 a
\* double quote, the first 50 characters, a double quote, then "...", 55
\* characters in all; the boundary is between 50 and 51.
C17_PreviewBoundary ==
  (op = "format_value_preview" /\ fnCall.value.t = "String") =>
    LET s == fnCall.value.s IN
    /\ Len(s) <= 50 =>
         /\ fnResult = <<"\"">> \o s \o <<"\"">>
         /\ ~EndsWith(fnResult, <<".", ".", ".">>)
    /\ Len(s) > 50 =>
         /\ fnResult = <<"\"">> \o [i \in 1..50 |-> s[i]]
                       \o <<"\"", ".", ".", ".">>
         /\ Len(fnResult) = 55

\* a string of 51 characters was cut to its first 50
C17_Witness ==
  /\ op = "format_value_preview"
  /\ fnCall.value.t = "String"
  /\ Len(fnCall.value.s) = 51
  /\ Len(fnResult) = 55
  /\ EndsWith(fnResult, <<"a", "\"", ".", ".", ".">>)

\* C18: format_value_from_string(full_value, fallback) returns fallback when
\* full_value is empty; full_value itself when it is non-empty and does not
\* parse as JSON; otherwise the literal form of the parsed value: the raw
\* string for a JSON string, pretty-printed JSON for anything else.
C18_FromString ==
  op = "format_value_from_string" =>
    LET full == fnCall.full_value
        parsed == from_str(full)
    IN  /\ full = <<>> => fnResult = fnCall.preview_fallback
        /\ (full # <<>> /\ ~parsed.ok) => fnResult = full
        /\ (full # <<>> /\ parsed.ok /\ parsed.v.t = "String") =>
             fnResult = parsed.v.s
        /\ (full # <<>> /\ parsed.ok /\ parsed.v.t # "String") =>
             fnResult = to_string_pretty(parsed.v)

\* a text of blanks, which is not empty and not JSON, came back as it was
C18_Witness ==
  /\ op = "format_value_from_string"
  /\ fnCall.full_value = <<" ", "\n">>
  /\ fnCall.preview_fallback = <<"f", "b">>
  /\ fnResult = <<" ", "\n">>

(***************************************************************************)
(* The Parquet parser and the error kinds, under SpecParse.                *)
(***************************************************************************)
\* the decoder opened the file and read every batch
ValidTable(pq) ==
  /\ pq.open
  /\ \A b \in 1..Len(pq.batches) : pq.batches[b].ok

RECURSIVE RowsBefore(_, _)
RowsBefore(batches, b) ==
  IF b <= 1 THEN 0 ELSE RowsBefore(batches, b - 1) + batches[b - 1].rows

\* value is what a cell of a column of this type becomes
Converted(value, type, cell) ==
  IF cell.null THEN value = Null
  ELSE /\ type = "Utf8" => value = Str(cell.v.s)
       /\ type = "Int64" => value = Num(cell.v.n)
       /\ type = "Float64" => value.t = "Number"
       /\ type = "Boolean" => value = Bool(cell.v = Bool(TRUE))

\* object is the row r of the batch
IsRow(object, batch, r) ==
  /\ object.t = "Object"
  /\ {object.kids[j].k : j \in 1..Len(object.kids)}
       = {batch.fields[c].name : c \in 1..Len(batch.fields)}
  /\ Len(object.kids) = Len(batch.fields)
  /\ \A c \in 1..Len(batch.fields) :
       Converted(FieldOf(object, batch.fields[c].name),
                 batch.fields[c].type, batch.cols[c][r])

\* C19: parse_parquet_content on a valid file returns Single(Array(rows))
\* with one Object per table row, in row order across all batches, each
\* keyed by the schema's field names; a null cell is Null and a Utf8, Int64,
\* Float64 or Boolean cell is a String, Number, Number or Bool; the parser
\* never returns JsonL.
C19_ParquetRows ==
  op = "parse_parquet_content" =>
    /\ result.kind # "JsonL"
    /\ ValidTable(pqLib) =>
         /\ result.ok
         /\ result.kind = "Single"
         /\ Len(result.values) = 1
         /\ result.values[1].t = "Array"
         /\ Len(result.values[1].kids)
              = RowsBefore(pqLib.batches, Len(pqLib.batches) + 1)
         /\ \A b \in 1..Len(pqLib.batches) :
              \A r \in 1..pqLib.batches[b].rows :
                IsRow(result.values[1].kids[RowsBefore(pqLib.batches, b) + r].v,
                      pqLib.batches[b], r)

\* a table in two batches gave three rows, the third from the second batch,
\* its null Int64 cell Null and its empty Utf8 cell the empty String
C19_Witness ==
  /\ op = "parse_parquet_content"
  /\ ValidTable(pqLib)
  /\ Len(pqLib.batches) = 2
  /\ result.kind = "Single"
  /\ Len(result.values[1].kids) = 3
  /\ FieldOf(result.values[1].kids[3].v, <<"i">>) = Null
  /\ FieldOf(result.values[1].kids[3].v, <<"s">>) = Str(<<>>)
  /\ FieldOf(result.values[1].kids[1].v, <<"b">>) = Bool(TRUE)
  /\ FieldOf(result.values[1].kids[2].v, <<"f">>) = Num(0)

\* the error kind of the parser that parse_file selects for a file name
SelectedKind(name) ==
  IF name \in JsonNames THEN "InvalidJson"
  ELSE IF name \in ParquetNames THEN "InvalidParquet"
  ELSE "InvalidYaml"

HasUnsupportedColumn(pq) ==
  \E b \in 1..Len(pq.batches) :
    \E c \in 1..Len(pq.batches[b].fields) :
      pq.batches[b].fields[c].type
        \notin {"Utf8", "Int64", "Float64", "Boolean"}

\* C20: each parser fails only with its own error kind: parse_json_content
\* with InvalidJson, parse_yaml_content with InvalidYaml,
\* parse_parquet_content with InvalidParquet, and not at all because of a
\* column of an unsupported type; parse_file with IoError or the kind of the
\* parser its extension selected.
C20_OwnErrorKind ==
  /\ (op = "parse_json_content" /\ ~result.ok) => result.kind = "InvalidJson"
  /\ (op = "parse_yaml_content" /\ ~result.ok) => result.kind = "InvalidYaml"
  /\ (op = "parse_parquet_content" /\ ~result.ok) =>
       result.kind = "InvalidParquet"
  /\ (/\ op = "parse_parquet_content"
      /\ ValidTable(pqLib)
      /\ HasUnsupportedColumn(pqLib)) => result.ok
  /\ (op = "parse_file" /\ ~result.ok) =>
       result.kind \in {"IoError", SelectedKind(file.name)}

\* a Parquet file whose first batch, with a Date32 column, was read and
\* whose second batch was not: InvalidParquet from parse_file
C20_Witness ==
  /\ op = "parse_file"
  /\ file.name \in ParquetNames
  /\ file.readable
  /\ pqLib.open
  /\ Len(pqLib.batches) = 2
  /\ HasUnsupportedColumn(pqLib)
  /\ result = ParseError("InvalidParquet")

(***************************************************************************)
(* The highlighted occurrence and the rows searched, under SpecCalls.      *)
(***************************************************************************)
\* where the k-th (from 0) occurrence of needle in hay starts when the
\* occurrences are taken from left to right without overlap: the first
\* place the needle is found with k disjoint occurrences wholly before it
KthStart(hay, needle, k) ==
  LET starts == {s \in 0..(Len(hay) - Len(needle)) :
                   /\ SubSeq(hay, s + 1, s + Len(needle)) = needle
                   /\ NonOverlapping(SubSeq(hay, 1, s), needle) >= k}
  IN  CHOOSE s \in starts : \A t \in starts : s <= t

\* range is the k-th occurrence of the query in the text
IsKthOccurrence(range, text, query, case_sensitive, k) ==
  /\ range.some
  /\ range.v[1] = KthStart(Fold(text, case_sensitive),
                           Fold(query, case_sensitive), k)
  /\ range.v[2] = range.v[1] + Len(query)
  /\ range.v[1] < range.v[2]
  /\ range.v[2] <= Len(text)

\* C23: for a value match at global index g that is the k-th value match
\* (from 0) among the matches of its leaf, navigation highlights the range,
\* in characters, start < end <= length, of the k-th non-overlapping
\* occurrence of the query in the leaf's rendered text; a search for TEST,
\* whatever the case, on a leaf rendered as test gives exactly one value
\* match, with range (0,4).
C23_HighlightsKthOccurrence ==
  op = "navigate_to_match" =>
    /\ ~fnCall.matches[fnCall.idx + 1].is_key_match =>
         LET pm == [i \in {j \in 1..Len(fnCall.matches) :
                             fnCall.matches[j].path = fnCall.path} |->
                      fnCall.matches[i].is_key_match]
             k == Cardinality({i \in DOMAIN pm : i <= fnCall.idx /\ ~pm[i]})
         IN  k < NonOverlapping(Fold(fnCall.text, fnCall.case_sensitive),
                                Fold(fnCall.query, fnCall.case_sensitive))
               => IsKthOccurrence(fnResult, fnCall.text, fnCall.query,
                                  fnCall.case_sensitive, k)
    /\ fnCall.query = <<"T", "E", "S", "T">> =>
         /\ fnCall.text = <<"t", "e", "s", "t">>
         /\ fnCall.matches = <<SearchMatch(<<0, 0>>, FALSE)>>
         /\ fnResult = Some(<<0, 4>>)

\* the second value match of a leaf, after a match of another row and a key
\* match of its own: the second occurrence of the query is highlighted
C23_Witness ==
  /\ op = "navigate_to_match"
  /\ fnCall.matches = MatchList(1, 1, 2)
  /\ fnCall.idx = 3
  /\ fnCall.text = <<"a", "A", "a">>
  /\ fnCall.query = <<"a">>
  /\ ~fnCall.case_sensitive
  /\ fnResult = Some(<<1, 2>>)

\* text holds the query, whatever the case when the search is not case
\* sensitive
Holds(text, query, case_sensitive) ==
  NonOverlapping(Fold(text, case_sensitive), Fold(query, case_sensitive)) > 0

\* C24: every entry of the match list belongs to a node that had no children
\* when the search ran: a node with children contributes no key or value
\* match even when its name or serialized value contains the query, while
\* empty objects, empty arrays and scalar roots are searched as leaves.
C24_OnlyLeavesMatch ==
  op = "search_tree" =>
    LET store == <<fnCall.row>> IN
    /\ \A i \in 1..Len(fnResult) :
         /\ HasRow(store, fnResult[i].path)
         /\ RowAt(store, fnResult[i].path).children = <<>>
    /\ \A p \in RowPaths(store, <<>>) :
         LET row == RowAt(store, p)
             entries == {i \in 1..Len(fnResult) : fnResult[i].path = p}
         IN  IF row.children # <<>> THEN entries = {}
             ELSE /\ Holds(row.name, fnCall.query, fnCall.case_sensitive)
                       <=> \E i \in entries : fnResult[i].is_key_match
                  /\ Holds(format_value_from_string(row.full_value,
                                                    row.preview),
                           fnCall.query, fnCall.case_sensitive)
                       <=> \E i \in entries : ~fnResult[i].is_key_match

\* {"a":{}} under the root named a, searched for a: the root's name and
\* value contain the query and it has no entry; the empty object has one
C24_Witness ==
  /\ op = "search_tree"
  /\ fnCall.query = <<"a">>
  /\ fnCall.row = add_single_value_to_tree(
                    Obj(<<Field(<<"a">>, Obj(<<>>))>>), <<"a">>)
  /\ fnResult = <<SearchMatch(<<0, 0>>, TRUE)>>

(***************************************************************************)
(* The rendered value of a node, under SpecTree.                           *)
(***************************************************************************)
\* the nodes of a tree
RECURSIVE Nodes(_)
Nodes(node) ==
  {node} \cup UNION {Nodes(node.children[i]) : i \in 1..Len(node.children)}

\* C25: for every node the tree builder creates from a Value, and for the
\* synthetic JSONL root, format_value_from_string(node.full_value,
\* node.preview) equals node.display_value: the text searched, the text
\* shown on selection and the text highlighted are the same string.
C25_RenderedIsDisplayValue ==
  Built =>
    \A node \in Nodes(root) :
      format_value_from_string(node.full_value, node.preview)
        = node.display_value

\* an array holding a string with a backslash and a line feed: the stored
\* text escapes both, and the string comes back as it was
C25_Witness ==
  /\ Built
  /\ treeInput = Single(Arr(<<Str(<<"a", "\\", "\n">>), Bool(FALSE)>>))
  /\ root.children[1].full_value = <<"\"", "a", "\\", "\\", "\\", "n", "\"">>
  /\ root.children[1].display_value = <<"a", "\\", "\n">>
  /\ root.display_value # root.full_value

(***************************************************************************)
(* The search session of the window: the current index and the match list. *)
(***************************************************************************)
\* C26: in every state of the window, after every handler, loads and
\* removals of documents included, the current index is None exactly when
\* the match list is empty, and an index Some(i) satisfies
\* 0 <= i < length of the match list.
C26_IndexWithinMatches ==
  /\ (gui.search_current_index = None) <=> (gui.search_matches = <<>>)
  /\ gui.search_current_index.some =>
       /\ 0 <= gui.search_current_index.v
       /\ gui.search_current_index.v < Len(gui.search_matches)

\* the document was removed over a search on its last match: the list and
\* the index are those of the search
C26_Witness ==
  /\ op \in {"remove_file_menu_item", "remove_item"}
  /\ gui.tree_store = <<>>
  /\ Len(gui.search_matches) = 5
  /\ gui.search_current_index = Some(4)

\* the window after k clicks of Next
RECURSIVE NextTimes(_, _)
NextTimes(g, k) ==
  IF k = 0 THEN g ELSE NextTimes(next_button_clicked(g), k - 1)

\* C27: over a non-empty match list Next and Previous are inverse on the
\* current index and neither changes the match list; n clicks of Next over
\* a list of length n return to the index they started at and visit every
\* index exactly once.
C27_NextPreviousInverse ==
  gui.search_matches # <<>> =>
    /\ prev_button_clicked(next_button_clicked(gui)).search_current_index
         = gui.search_current_index
    /\ next_button_clicked(prev_button_clicked(gui)).search_current_index
         = gui.search_current_index
    /\ next_button_clicked(gui).search_matches = gui.search_matches
    /\ prev_button_clicked(gui).search_matches = gui.search_matches
    /\ NextTimes(gui, Len(gui.search_matches)).search_current_index
         = gui.search_current_index
    /\ NextTimes(gui, Len(gui.search_matches)).search_matches
         = gui.search_matches
    /\ {NextTimes(gui, k).search_current_index.v :
           k \in 1..Len(gui.search_matches)}
         = 0..(Len(gui.search_matches) - 1)

\* Previous has wrapped from the first match to the last of at least three
C27_Witness ==
  /\ op = "prev_button"
  /\ Len(gui.search_matches) >= 3
  /\ gui.search_current_index = Some(Len(gui.search_matches) - 1)
  /\ next_button_clicked(gui).search_current_index = Some(0)

\* C30: from start-up on, in every state of the window, Previous and Next
\* are enabled exactly when the match list is non-empty.
C30_ButtonsFollowMatches ==
  /\ gui.prev_button = (gui.search_matches # <<>>)
  /\ gui.next_button = (gui.search_matches # <<>>)

(***************************************************************************)
(* The two tree builders, under SpecTree.                                  *)
(***************************************************************************)
\* the node as a row: the four columns the store keeps, children in order
RECURSIVE Columns(_)
Columns(node) ==
  Row(node.name, node.preview, node.path, node.full_value,
      [i \in 1..Len(node.children) |-> Columns(node.children[i])])

\* C28: for the same ParseResult and display name the builder of the GTK
\* tree store (add_single_value_to_tree, add_jsonl_to_tree, populate_tree,
\* as load_parse_result calls them) and build_tree_from_parse_result give
\* the same nodes in the same pre-order, with the same name, preview, path
\* and full_value at every node, the JSONL root included.
C28_BuildersAgree ==
  Built => Columns(root) = RootRow(treeInput, display_name)

\* a JSONL document of two lines, the second one a container
C28_Witness ==
  /\ Built
  /\ treeInput.kind = "JsonL"
  /\ Len(RootRow(treeInput, display_name).children) = 2
  /\ RootRow(treeInput, display_name).children[2].children # <<>>
  /\ RootRow(treeInput, display_name).path = display_name
  /\ Columns(root).children[2].children
       = RootRow(treeInput, display_name).children[2].children

(***************************************************************************)
(* Removing a document, in the window started with files.                  *)
(***************************************************************************)
\* the panes hold the placeholder texts
PanesCleared(g) ==
  /\ g.path_entry = <<>>
  /\ g.value_text_buffer = SelectPrompt

\* the panes show a row
PanesShow(g, row) ==
  /\ g.path_entry = row.path
  /\ g.value_text_buffer
       = format_value_from_string(row.full_value, row.preview)

\* the store without its root r (from 0), the other roots as they were
WithoutRoot(before, after, r) ==
  /\ Len(after) = Len(before) - 1
  /\ \A i \in 1..Len(after) :
       after[i] = before[IF i <= r THEN i ELSE i + 1]

\* what the remove-root action may leave of window g
RemoveOutcome(g, after, moves) ==
  IF g.selection.some /\ Len(g.selection.v) = 1
  THEN /\ WithoutRoot(g.tree_store, after.tree_store, g.selection.v[1])
       /\ IF after.tree_store = <<>>
          THEN after.selection = None /\ PanesCleared(after)
          ELSE /\ after.selection = Some(<<0>>)
               /\ IF moves /\ g.selection.v[1] = 0
                  THEN PanesCleared(after)
                  ELSE PanesShow(after, after.tree_store[1])
  ELSE /\ after.tree_store = g.tree_store
       /\ after.selection = g.selection
       /\ after.path_entry = g.path_entry
       /\ after.value_text_buffer = g.value_text_buffer

====
